---- MODULE Spec2Model ----
(***************************************************************************)
(* Weather ETL pipeline: the dimensional upsert functions of               *)
(* etl/extract_weather_from_openmeteo.py and                               *)
(* etl/extract_forecast_from_openmeteo.py, the load stages of              *)
(* dags/weather_etl_dag.py and the standalone main() loops, over a         *)
(* PostgreSQL database modelled as tables of rows with a committed state   *)
(* and a connection's uncommitted view.                                    *)
(***************************************************************************)
EXTENDS Integers, Sequences, FiniteSets, TLC

VARIABLES
    schema,           \* os.getenv('WEATHER_DB_SCHEMA', 'pittsburgh')
    db,               \* committed tables, per schema namespace
    tx,               \* the connection's view: committed rows and its own uncommitted writes
    seq,              \* the serial sequences behind location_id / date_id (not transactional)
    prog,             \* which program runs
    pc,               \* its position
    input,            \* the list the loop iterates over
    idx,              \* number of list entries the loop has consumed
    success_count,
    error_count,
    total_forecasts,
    rows_cleared,
    summary,          \* the returned summary, <<>> until the stage returns
    call,             \* the last function call: its name, arguments, return value, exception
    hist,             \* bookkeeping of earlier calls and events, for stating the properties
    ncalls,           \* number of function calls made on the cursor
    writers,          \* concurrent transactions: each writer's position and results
    rows              \* the row versions concurrent writers see (with their writer and state)

vars == <<schema, db, tx, seq, prog, pc, input, idx, success_count, error_count,
          total_forecasts, rows_cleared, summary, call, hist, ncalls, writers, rows>>

stageVars == <<input, idx, success_count, error_count, total_forecasts, rows_cleared, summary>>
concVars == <<writers, rows>>

----------------------------------------------------------------------------
(* Values *)

\* Python's None / SQL NULL
None == "None"

\* the namespace the NYC-variant SQL of etl/extract_weather_from_openmeteo.py names
WEATHER_NS == "weather"

\* the default of WEATHER_DB_SCHEMA
DEFAULT_SCHEMA == "pittsburgh"

Namespaces == {WEATHER_NS, DEFAULT_SCHEMA}

Get(d, k) == IF k \in DOMAIN d THEN d[k] ELSE None

----------------------------------------------------------------------------
(* datetime.date: ordinal, weekday, ISO week, as CPython computes them *)

IsLeap(y) == y % 4 = 0 /\ (y % 100 # 0 \/ y % 400 = 0)

DaysBeforeYear(y) ==
    (y - 1) * 365 + ((y - 1) \div 4) - ((y - 1) \div 100) + ((y - 1) \div 400)

DAYS_BEFORE_MONTH == <<0, 31, 59, 90, 120, 151, 181, 212, 243, 273, 304, 334>>

DaysBeforeMonth(y, m) ==
    DAYS_BEFORE_MONTH[m] + (IF m > 2 /\ IsLeap(y) THEN 1 ELSE 0)

\* date(y, m, d).toordinal(); a date is <<year, month, day>>
ymd2ord(d) == DaysBeforeYear(d[1]) + DaysBeforeMonth(d[1], d[2]) + d[3]

\* date.weekday(): Monday is 0
weekday(d) == (ymd2ord(d) + 6) % 7

DAY_NAMES == <<"Monday", "Tuesday", "Wednesday", "Thursday", "Friday", "Saturday", "Sunday">>

\* date.strftime('%A')
strftimeA(d) == DAY_NAMES[weekday(d) + 1]

isoweek1monday(y) ==
    LET firstday == ymd2ord(<<y, 1, 1>>)
        firstweekday == (firstday + 6) % 7
        week1monday == firstday - firstweekday
    IN IF firstweekday > 3 THEN week1monday + 7 ELSE week1monday

\* floor division, as Python's //
FloorDiv(a, b) == IF a >= 0 THEN a \div b ELSE -((-a + b - 1) \div b)

\* date.isocalendar()[1]
isoweek(d) ==
    LET today == ymd2ord(d)
        week == FloorDiv(today - isoweek1monday(d[1]), 7)
    IN IF week < 0
       THEN FloorDiv(today - isoweek1monday(d[1] - 1), 7) + 1
       ELSE IF week >= 52 /\ today >= isoweek1monday(d[1] + 1)
            THEN 1
            ELSE week + 1

----------------------------------------------------------------------------
(* Time strings and datetime.fromisoformat *)

\* A time string of a payload: date, hour, the separator between them ("T"
\* or " "; "" for the empty string ''), and what follows the time: "" (no
\* offset: local time of the requested timezone), "Z", "+00:00", "-05:00",
\* or "?" for text fromisoformat cannot parse.
TimeStr(sep, d, h, suffix) == [sep |-> sep, date |-> d, hour |-> h, suffix |-> suffix]

EMPTY_STR == TimeStr("", <<0, 0, 0>>, 0, "")

\* 'T' in time_str
HasT(time_str) == time_str.sep = "T"

\* time_str.replace('Z', '+00:00')
ReplaceZ(time_str) ==
    IF time_str.suffix = "Z" THEN [time_str EXCEPT !.suffix = "+00:00"] ELSE time_str

\* whether datetime.fromisoformat(s) raises ValueError ('Z' is accepted only
\* by newer interpreters; no input of the model reaches it with 'Z')
IsoFormatError(s) == s.sep = "" \/ s.suffix \notin {"", "+00:00", "-05:00"}

\* datetime.fromisoformat(s): the wall-clock fields as written and the offset
\* as tzinfo ("naive" without one)
fromisoformat(s) ==
    [date |-> s.date, hour |-> s.hour, tz |-> IF s.suffix = "" THEN "naive" ELSE s.suffix]

\* the parse of insert_weather_observation / insert_forecast_observations
ParseArg(time_str) == IF HasT(time_str) THEN ReplaceZ(time_str) ELSE time_str

\* observation_time.date(): the wall-clock date, whatever the offset
DateOf(observation_time) == observation_time.date

\* "timezone": "America/New_York" of the request: the offset, in hours, of
\* the local times the API returns (EST; the model's dates are in January)
LocalOffset == 0 - 5

UtcOffset(tz) == IF tz = "naive" THEN LocalOffset ELSE IF tz = "-05:00" THEN 0 - 5 ELSE 0

\* the instant a datetime denotes, in hours
InstantOf(dt) == ymd2ord(dt.date) * 24 + dt.hour - UtcOffset(dt.tz)

----------------------------------------------------------------------------
(* Tables *)

EmptyTables ==
    [dim_location |-> {}, dim_date |-> {},
     fact_current_weather |-> {}, fact_hourly_forecast |-> {}]

EmptyDb == [ns \in Namespaces |-> EmptyTables]

EmptySeq == [ns \in Namespaces |-> [dim_location |-> 0, dim_date |-> 0]]

\* A cursor in use: the connection's view, the sequences, the value the last
\* statement or function returned, and the exception raised ("" for none).
Cursor(view, sq) == [tx |-> view, seq |-> sq, ret |-> 0, exc |-> ""]

Raise(c, e) == [c EXCEPT !.exc = e, !.ret = 0]

CURRENT_FIELDS ==
    {"temperature_2m", "apparent_temperature", "relative_humidity_2m",
     "wind_speed_10m", "wind_direction_10m", "wind_gusts_10m",
     "precipitation", "rain", "showers", "snowfall",
     "weather_code", "cloud_cover", "is_day",
     "pressure_msl", "surface_pressure"}

FORECAST_FIELDS ==
    {"temperature_2m", "relative_humidity_2m", "dew_point_2m",
     "apparent_temperature", "precipitation_probability",
     "precipitation", "rain", "showers", "snowfall", "snow_depth",
     "weather_code", "pressure_msl", "surface_pressure",
     "cloud_cover", "cloud_cover_low", "cloud_cover_mid", "cloud_cover_high",
     "visibility", "evapotranspiration", "et0_fao_evapotranspiration",
     "vapour_pressure_deficit",
     "wind_speed_10m", "wind_speed_80m", "wind_speed_120m", "wind_speed_180m",
     "wind_direction_10m", "wind_direction_80m", "wind_direction_120m",
     "wind_direction_180m", "wind_gusts_10m",
     "temperature_80m", "temperature_120m", "temperature_180m"}

----------------------------------------------------------------------------
(* get_or_create_date *)

\* DateRow with the weekend test off by one (Sunday only)
DateRow_WeekendSundayOnly(date_id, date_only) ==
    [date_id |-> date_id,
     date |-> date_only,
     year |-> date_only[1],
     month |-> date_only[2],
     day |-> date_only[3],
     day_of_week |-> weekday(date_only),
     day_name |-> strftimeA(date_only),
     week_of_year |-> isoweek(date_only),
     quarter |-> ((date_only[2] - 1) \div 3) + 1,
     is_weekend |-> weekday(date_only) > 5]

\* the VALUES of the INSERT INTO dim_date
DateRow(date_id, date_only) ==
    [date_id |-> date_id,
     date |-> date_only,
     year |-> date_only[1],
     month |-> date_only[2],
     day |-> date_only[3],
     day_of_week |-> weekday(date_only),
     day_name |-> strftimeA(date_only),
     week_of_year |-> isoweek(date_only),
     quarter |-> ((date_only[2] - 1) \div 3) + 1,
     is_weekend |-> weekday(date_only) >= 5]

\* INSERT INTO {ns}.dim_date ... RETURNING date_id; dim_date is unique by date
InsertDate(c, date_only, ns) ==
    LET date_id == c.seq[ns].dim_date + 1
        c1 == [c EXCEPT !.seq[ns].dim_date = date_id]
    IN IF \E r \in c.tx[ns].dim_date : r.date = date_only
       THEN Raise(c1, "UniqueViolation")
       ELSE [c1 EXCEPT !.tx[ns].dim_date = @ \cup {DateRow(date_id, date_only)},
                       !.ret = date_id]

\* get_or_create_date without the lookup: always the INSERT
get_or_create_date_NoLookup(c, observation_time, ns) ==
    InsertDate(c, DateOf(observation_time), ns)

\* SELECT date_id FROM {ns}.dim_date WHERE date = %s, then the INSERT when
\* no row is found
get_or_create_date(c, observation_time, ns) ==
    LET date_only == DateOf(observation_time)
        result == {r \in c.tx[ns].dim_date : r.date = date_only}
    IN IF result # {}
       THEN [c EXCEPT !.ret = (CHOOSE r \in result : TRUE).date_id]
       ELSE InsertDate(c, date_only, ns)

\* the variant of etl/extract_weather_from_openmeteo.py: weather.dim_date
W_get_or_create_date(c, observation_time) ==
    get_or_create_date(c, observation_time, WEATHER_NS)

----------------------------------------------------------------------------
(* insert_or_update_location *)

\* insert_or_update_location with ON CONFLICT ... DO NOTHING: the stored name
\* and community board are kept
W_insert_or_update_location_DoNothing(c, neighborhood_name, coord, community_board) ==
    LET ns == WEATHER_NS
        new_id == c.seq[ns].dim_location + 1
        c1 == [c EXCEPT !.seq[ns].dim_location = new_id]
        old == {r \in c.tx[ns].dim_location : r.coord = coord}
    IN IF old = {}
       THEN [c1 EXCEPT !.tx[ns].dim_location = @ \cup
                          {[location_id |-> new_id,
                            neighborhood_name |-> neighborhood_name,
                            coord |-> coord,
                            community_board |-> community_board]},
                       !.ret = new_id]
       ELSE [c1 EXCEPT !.ret = (CHOOSE r \in old : TRUE).location_id]

\* INSERT INTO weather.dim_location (neighborhood_name, latitude, longitude,
\* community_board) ... ON CONFLICT (latitude, longitude) DO UPDATE SET
\* neighborhood_name, community_board ... RETURNING location_id.
\* The default of location_id draws from the sequence before the conflict is
\* detected.
W_insert_or_update_location(c, neighborhood_name, coord, community_board) ==
    LET ns == WEATHER_NS
        new_id == c.seq[ns].dim_location + 1
        c1 == [c EXCEPT !.seq[ns].dim_location = new_id]
        old == {r \in c.tx[ns].dim_location : r.coord = coord}
    IN IF old = {}
       THEN [c1 EXCEPT !.tx[ns].dim_location = @ \cup
                          {[location_id |-> new_id,
                            neighborhood_name |-> neighborhood_name,
                            coord |-> coord,
                            community_board |-> community_board]},
                       !.ret = new_id]
       ELSE LET r == CHOOSE r \in old : TRUE
            IN [c1 EXCEPT !.tx[ns].dim_location = (@ \ old) \cup
                              {[r EXCEPT !.neighborhood_name = neighborhood_name,
                                         !.community_board = community_board]},
                          !.ret = r.location_id]

\* insert_or_update_location without the ON CONFLICT clause: coordinates
\* already stored violate the unique constraint
F_insert_or_update_location_PlainInsert(c, neighborhood_name, coord, ns) ==
    LET new_id == c.seq[ns].dim_location + 1
        c1 == [c EXCEPT !.seq[ns].dim_location = new_id]
    IN IF \E r \in c.tx[ns].dim_location : r.coord = coord
       THEN Raise(c1, "UniqueViolation")
       ELSE [c1 EXCEPT !.tx[ns].dim_location = @ \cup
                          {[location_id |-> new_id,
                            neighborhood_name |-> neighborhood_name,
                            coord |-> coord,
                            community_board |-> None]},
                       !.ret = new_id]

\* INSERT INTO {ns}.dim_location (neighborhood_name, latitude, longitude)
\* ... ON CONFLICT (latitude, longitude) DO UPDATE SET neighborhood_name ...
\* RETURNING location_id; community_board is not written.
F_insert_or_update_location(c, neighborhood_name, coord, ns) ==
    LET new_id == c.seq[ns].dim_location + 1
        c1 == [c EXCEPT !.seq[ns].dim_location = new_id]
        old == {r \in c.tx[ns].dim_location : r.coord = coord}
    IN IF old = {}
       THEN [c1 EXCEPT !.tx[ns].dim_location = @ \cup
                          {[location_id |-> new_id,
                            neighborhood_name |-> neighborhood_name,
                            coord |-> coord,
                            community_board |-> None]},
                       !.ret = new_id]
       ELSE LET r == CHOOSE r \in old : TRUE
            IN [c1 EXCEPT !.tx[ns].dim_location = (@ \ old) \cup
                              {[r EXCEPT !.neighborhood_name = neighborhood_name]},
                          !.ret = r.location_id]

----------------------------------------------------------------------------
(* insert_weather_observation *)

\* UpsertCurrent with DO UPDATE SET x = COALESCE(EXCLUDED.x, x): a field the
\* new payload omits keeps the stored value
UpsertCurrent_KeepOmitted(c, location_id, date_id, observation_time, current) ==
    LET ns == WEATHER_NS
        old == {r \in c.tx[ns].fact_current_weather :
                    r.location_id = location_id /\ r.observation_time = observation_time}
        kept(f) == IF old = {} THEN None ELSE (CHOOSE r \in old : TRUE).m[f]
        new == [location_id |-> location_id,
                date_id |-> date_id,
                observation_time |-> observation_time,
                m |-> [f \in CURRENT_FIELDS |->
                          IF f \in DOMAIN current THEN current[f] ELSE kept(f)]]
    IN IF ~ \E l \in c.tx[ns].dim_location : l.location_id = location_id
       THEN Raise(c, "ForeignKeyViolation")
       ELSE [c EXCEPT !.tx[ns].fact_current_weather = (@ \ old) \cup {new}, !.ret = 0]

\* INSERT INTO weather.fact_current_weather (...) VALUES (...)
\* ON CONFLICT (location_id, observation_time) DO UPDATE SET date_id and the
\* fifteen measurement columns to the EXCLUDED values. location_id references
\* dim_location.
UpsertCurrent(c, location_id, date_id, observation_time, current) ==
    LET ns == WEATHER_NS
        old == {r \in c.tx[ns].fact_current_weather :
                    r.location_id = location_id /\ r.observation_time = observation_time}
        new == [location_id |-> location_id,
                date_id |-> date_id,
                observation_time |-> observation_time,
                m |-> [f \in CURRENT_FIELDS |-> Get(current, f)]]
    IN IF ~ \E l \in c.tx[ns].dim_location : l.location_id = location_id
       THEN Raise(c, "ForeignKeyViolation")
       ELSE [c EXCEPT !.tx[ns].fact_current_weather = (@ \ old) \cup {new}, !.ret = 0]

\* insert_weather_observation(cursor, location_id, weather_data); a payload
\* is a record with an optional field current, itself a record of optional
\* fields (<<>> is the empty dict)
insert_weather_observation(c, location_id, weather_data) ==
    LET current == IF "current" \in DOMAIN weather_data THEN weather_data.current ELSE <<>>
    IN IF "time" \notin DOMAIN current \/ current.time = EMPTY_STR
       THEN Raise(c, "ValueError")
       ELSE LET s == ParseArg(current.time)
            IN IF IsoFormatError(s)
               THEN Raise(c, "ValueError")
               ELSE LET observation_time == fromisoformat(s)
                        c1 == W_get_or_create_date(c, observation_time)
                    IN IF c1.exc # ""
                       THEN c1
                       ELSE UpsertCurrent(c1, location_id, c1.ret, observation_time, current)

----------------------------------------------------------------------------
(* insert_forecast_observations *)

\* get_value that repeats the last element of a field array past its end
get_value_RepeatLast(hourly, key, index) ==
    LET values == IF key \in DOMAIN hourly THEN hourly[key] ELSE <<>>
    IN IF index < Len(values) THEN values[index + 1]
       ELSE IF Len(values) > 0 THEN values[Len(values)] ELSE None

\* get_value(key, index) of insert_forecast_observations; index counts from 0
get_value(hourly, key, index) ==
    LET values == IF key \in DOMAIN hourly THEN hourly[key] ELSE <<>>
    IN IF index < Len(values) THEN values[index + 1] ELSE None

\* INSERT INTO {ns}.fact_hourly_forecast (...) VALUES (...)
\* ON CONFLICT (location_id, forecast_time) DO UPDATE SET date_id and the
\* thirty-three measurement columns to the EXCLUDED values.
UpsertForecast(c, location_id, date_id, forecast_time, hourly, i, ns) ==
    LET old == {r \in c.tx[ns].fact_hourly_forecast :
                    r.location_id = location_id /\ r.forecast_time = forecast_time}
        new == [location_id |-> location_id,
                date_id |-> date_id,
                forecast_time |-> forecast_time,
                m |-> [f \in FORECAST_FIELDS |-> get_value(hourly, f, i)]]
    IN IF ~ \E l \in c.tx[ns].dim_location : l.location_id = location_id
       THEN Raise(c, "ForeignKeyViolation")
       ELSE [c EXCEPT !.tx[ns].fact_hourly_forecast = (@ \ old) \cup {new}]

\* the loop with an hour whose timestamp does not parse skipped instead of
\* raised
RECURSIVE ForecastLoop_SkipBadHour(_, _, _, _, _)
ForecastLoop_SkipBadHour(c, location_id, hourly, ns, i) ==
    IF i >= Len(hourly.time)
    THEN c
    ELSE LET s == ParseArg(hourly.time[i + 1])
         IN IF IsoFormatError(s)
            THEN ForecastLoop_SkipBadHour(c, location_id, hourly, ns, i + 1)
            ELSE LET forecast_time == fromisoformat(s)
                     inserted_count == c.ret
                     c1 == get_or_create_date(c, forecast_time, ns)
                 IN IF c1.exc # ""
                    THEN c1
                    ELSE LET c2 == UpsertForecast(c1, location_id, c1.ret, forecast_time,
                                                  hourly, i, ns)
                         IN IF c2.exc # ""
                            THEN c2
                            ELSE ForecastLoop_SkipBadHour(
                                     [c2 EXCEPT !.ret = inserted_count + 1],
                                     location_id, hourly, ns, i + 1)

\* the body of "for i in range(len(times))", from index i on; c.ret carries
\* inserted_count
RECURSIVE ForecastLoop(_, _, _, _, _)
ForecastLoop(c, location_id, hourly, ns, i) ==
    IF i >= Len(hourly.time)
    THEN c
    ELSE LET s == ParseArg(hourly.time[i + 1])
         IN IF IsoFormatError(s)
            THEN Raise(c, "ValueError")
            ELSE LET forecast_time == fromisoformat(s)
                     inserted_count == c.ret
                     c1 == get_or_create_date(c, forecast_time, ns)
                 IN IF c1.exc # ""
                    THEN c1
                    ELSE LET c2 == UpsertForecast(c1, location_id, c1.ret, forecast_time,
                                                  hourly, i, ns)
                         IN IF c2.exc # ""
                            THEN c2
                            ELSE ForecastLoop([c2 EXCEPT !.ret = inserted_count + 1],
                                              location_id, hourly, ns, i + 1)

\* insert_forecast_observations(cursor, location_id, forecast_data, schema);
\* a payload is a record with an optional field hourly, a record of an
\* optional time array and optional field arrays (<<>> is the empty dict)
insert_forecast_observations(c, location_id, forecast_data, ns) ==
    LET hourly == IF "hourly" \in DOMAIN forecast_data THEN forecast_data.hourly ELSE <<>>
    IN IF DOMAIN hourly = {}
       THEN Raise(c, "ValueError")
       ELSE IF "time" \notin DOMAIN hourly \/ Len(hourly.time) = 0
            THEN Raise(c, "ValueError")
            ELSE ForecastLoop([c EXCEPT !.ret = 0], location_id, hourly, ns, 0)

----------------------------------------------------------------------------
(* get_weather_data / get_forecast_data *)

\* What one HTTP exchange with the API comes to: error is the exception that
\* requests.get (ConnectionError, Timeout), response.raise_for_status
\* (HTTPError) or response.json (JSONDecodeError) raises, "" when none does,
\* and json is the decoded body.
HttpOk(body) == [error |-> "", json |-> body]
HttpFails(e) == [error |-> e, json |-> <<>>]

\* the classes "except requests.exceptions.RequestException" catches
REQUEST_EXCEPTIONS == {"ConnectionError", "Timeout", "HTTPError"}

\* the None a fetch function returns, where a payload is expected
NO_RESPONSE == [fetch |-> "failed"]

\* what a function returns or raises
Returns(v) == [ret |-> v, exc |-> ""]
Raises(e) == [ret |-> <<>>, exc |-> e]

\* get_weather_data that catches only the errors of the connection: an HTTP
\* error status and an undecodable body are raised to the caller
get_weather_data_ConnectionOnly(response) ==
    IF response.error \in {"ConnectionError", "Timeout"}
    THEN Returns(NO_RESPONSE)
    ELSE IF response.error # ""
         THEN Raises(response.error)
         ELSE Returns(response.json)

\* get_weather_data(latitude, longitude), given what the exchange comes to
get_weather_data(response) ==
    IF response.error \in REQUEST_EXCEPTIONS
    THEN Returns(NO_RESPONSE)
    ELSE IF response.error = "JSONDecodeError"
         THEN Returns(NO_RESPONSE)
         ELSE IF response.error # ""
              THEN Raises(response.error)
              ELSE Returns(response.json)

\* get_forecast_data(latitude, longitude), given what the exchange comes to
get_forecast_data(response) ==
    IF response.error \in REQUEST_EXCEPTIONS
    THEN Returns(NO_RESPONSE)
    ELSE IF response.error = "JSONDecodeError"
         THEN Returns(NO_RESPONSE)
         ELSE IF response.error # ""
              THEN Raises(response.error)
              ELSE Returns(response.json)

\* "if weather_data:" / "if not forecast_data:": None and the empty dict are
\* false
Truthy(data) == data # NO_RESPONSE /\ DOMAIN data # {}

----------------------------------------------------------------------------
(* load_coordinates *)

\* The catalog file: file is "ok" when it opens and decodes, else "missing",
\* "unreadable" or "invalid"; json is the decoded document, a list or a dict
\* (type) with its items or keys (value).
JsonList(items) == [type |-> "list", value |-> items]
JsonDict(d) == [type |-> "dict", value |-> d]
CatalogFile(json) == [file |-> "ok", json |-> json]
BadCatalogFile(f) == [file |-> f, json |-> JsonDict(<<>>)]

\* open(coordinates_path, 'r') and json.load(f)
JsonLoad(catalog) ==
    IF catalog.file = "missing" THEN Raises("FileNotFoundError")
    ELSE IF catalog.file = "unreadable" THEN Raises("PermissionError")
    ELSE IF catalog.file = "invalid" THEN Raises("JSONDecodeError")
    ELSE Returns(catalog.json)

\* load_coordinates of etl/extract_weather_from_openmeteo.py: the document as
\* it is
W_load_coordinates(catalog) == JsonLoad(catalog)

\* load_coordinates of etl/extract_forecast_from_openmeteo.py:
\* data['neighborhoods']; on a list, 'neighborhoods' not in data compares the
\* string with the items
F_load_coordinates(catalog) ==
    LET loaded == JsonLoad(catalog)
        data == loaded.ret
    IN IF loaded.exc # ""
       THEN loaded
       ELSE IF data.type = "list" \/ "neighborhoods" \notin DOMAIN data.value
            THEN Raises("KeyError")
            ELSE Returns(data.value.neighborhoods)

----------------------------------------------------------------------------
(* Statements of concurrent transactions (READ COMMITTED, the default of a *)
(* psycopg2 connection).  A row version records the writer whose          *)
(* uncommitted INSERT made it (by, 0 once committed) and the writer whose  *)
(* uncommitted UPDATE holds its row lock (lock, 0 for none).               *)

NoRows == [dim_location |-> {}, dim_date |-> {}]

\* the outcome of a statement: it waits for another transaction (blocked),
\* or it ran and left rows, a returned id and possibly an exception
Ran(rs, ret, exc) == [blocked |-> FALSE, rows |-> rs, ret |-> ret, exc |-> exc]
Waits(rs) == [blocked |-> TRUE, rows |-> rs, ret |-> 0, exc |-> ""]

\* the location upsert as a SELECT followed by a plain INSERT: a row another
\* transaction has inserted and not committed is not seen, and the INSERT
\* then fails on the unique index
ConcUpsertLocation_CheckThenInsert(rs, w, neighborhood_name, coord, new_id) ==
    LET seen == {r \in rs.dim_location : r.key = coord /\ r.by \in {0, w}}
        old == {r \in rs.dim_location : r.key = coord}
    IN IF seen # {}
       THEN LET r == CHOOSE r \in seen : TRUE
            IN Ran([rs EXCEPT !.dim_location = (@ \ {r}) \cup
                        {[r EXCEPT !.lock = w, !.newval = neighborhood_name]}],
                   r.id, "")
       ELSE IF old # {}
            THEN Ran(rs, 0, "UniqueViolation")
            ELSE Ran([rs EXCEPT !.dim_location = @ \cup
                         {[key |-> coord, id |-> new_id, val |-> neighborhood_name,
                           by |-> w, lock |-> 0, newval |-> None]}],
                     new_id, "")

\* INSERT INTO dim_location ... ON CONFLICT (latitude, longitude) DO UPDATE
\* SET neighborhood_name ... RETURNING location_id, by writer w: it waits for
\* the transaction that inserted or locked the conflicting row
ConcUpsertLocation(rs, w, neighborhood_name, coord, new_id) ==
    LET old == {r \in rs.dim_location : r.key = coord}
    IN IF old = {}
       THEN Ran([rs EXCEPT !.dim_location = @ \cup
                    {[key |-> coord, id |-> new_id, val |-> neighborhood_name,
                      by |-> w, lock |-> 0, newval |-> None]}],
                new_id, "")
       ELSE LET r == CHOOSE r \in old : TRUE
            IN IF r.by \notin {0, w} \/ r.lock \notin {0, w}
               THEN Waits(rs)
               ELSE IF r.by = w
                    THEN Ran([rs EXCEPT !.dim_location = (@ \ {r}) \cup
                                 {[r EXCEPT !.val = neighborhood_name]}],
                             r.id, "")
                    ELSE Ran([rs EXCEPT !.dim_location = (@ \ {r}) \cup
                                 {[r EXCEPT !.lock = w, !.newval = neighborhood_name]}],
                             r.id, "")

\* SELECT date_id FROM dim_date WHERE date = %s, by writer w: committed rows
\* and its own; 0 when fetchone() returns None
ConcLookupDate(rs, w, date_only) ==
    LET result == {r \in rs.dim_date : r.key = date_only /\ r.by \in {0, w}}
    IN IF result # {} THEN (CHOOSE r \in result : TRUE).id ELSE 0

\* INSERT INTO dim_date ... RETURNING date_id, by writer w: it waits for the
\* transaction whose uncommitted row has the date, and raises on a committed
\* one
ConcInsertDate(rs, w, date_only, new_id) ==
    LET old == {r \in rs.dim_date : r.key = date_only}
    IN IF old = {}
       THEN Ran([rs EXCEPT !.dim_date = @ \cup
                    {[key |-> date_only, id |-> new_id, val |-> None,
                      by |-> w, lock |-> 0, newval |-> None]}],
                new_id, "")
       ELSE IF \E r \in old : r.by \in {0, w}
            THEN Ran(rs, 0, "UniqueViolation")
            ELSE Waits(rs)

CommitRow(r, w) ==
    IF r.by = w THEN [r EXCEPT !.by = 0]
    ELSE IF r.lock = w THEN [r EXCEPT !.val = r.newval, !.lock = 0, !.newval = None]
    ELSE r

\* conn.commit() of writer w
ConcCommit(rs, w) ==
    [dim_location |-> {CommitRow(r, w) : r \in rs.dim_location},
     dim_date |-> {CommitRow(r, w) : r \in rs.dim_date}]

RollbackRow(r, w) == IF r.lock = w THEN [r EXCEPT !.lock = 0, !.newval = None] ELSE r

\* conn.rollback() of writer w
ConcRollback(rs, w) ==
    [dim_location |-> {RollbackRow(r, w) : r \in {x \in rs.dim_location : x.by # w}},
     dim_date |-> {RollbackRow(r, w) : r \in {x \in rs.dim_date : x.by # w}}]

----------------------------------------------------------------------------
(* Inputs *)

\* how many functions are called on one cursor
MaxCalls == 3

Schemas == {DEFAULT_SCHEMA, WEATHER_NS}

Names == {"Shadyside", "Oakland"}

\* (latitude, longitude)
COORD_A == <<"40.4549", "-79.9323">>
COORD_B == <<"40.4406", "-79.9959">>

Coords == {COORD_A, COORD_B}

Boards == {None, "Manhattan 8"}

Dates ==
    {<<2026, 1, 18>>, <<2026, 1, 19>>, <<2026, 1, 24>>, <<2026, 3, 31>>,
     <<2026, 4, 1>>, <<2024, 2, 29>>, <<2026, 12, 31>>, <<2027, 1, 1>>}

DateTimes == {[date |-> d, hour |-> 12, tz |-> "naive"] : d \in Dates}

\* time strings of the payloads: 23:00 local time on 2026-01-19 and the same
\* instant written in UTC and with the local offset, the next local hour, and
\* text that is no timestamp
T_LOCAL == TimeStr("T", <<2026, 1, 19>>, 23, "")
T_UTC == TimeStr("T", <<2026, 1, 20>>, 4, "Z")
T_EST == TimeStr("T", <<2026, 1, 19>>, 23, "-05:00")
T_NEXT == TimeStr("T", <<2026, 1, 20>>, 0, "")
T_BAD == TimeStr("T", <<2026, 1, 19>>, 23, "?")

W_A == [current |-> [time |-> T_LOCAL, temperature_2m |-> "1.5", is_day |-> "1"]]
W_B == [current |-> [time |-> T_LOCAL, temperature_2m |-> "2.5"]]
W_Z == [current |-> [time |-> T_UTC, temperature_2m |-> "1.5", is_day |-> "0"]]
W_E == [current |-> [time |-> T_EST, temperature_2m |-> "1.5"]]
W_NOTIME == [current |-> [temperature_2m |-> "1.5"]]
W_NOCURRENT == [timezone |-> "America/New_York"]
W_BADTIME == [current |-> [time |-> T_BAD, temperature_2m |-> "1.5"]]

CurrentPayloads == {W_A, W_B, W_Z, W_E, W_NOTIME, W_NOCURRENT, W_BADTIME}

F_A == [hourly |-> [time |-> <<T_LOCAL, T_NEXT>>,
                    temperature_2m |-> <<"1.5", "2.5">>, rain |-> <<"0.0", "0.1">>]]
F_SHORT == [hourly |-> [time |-> <<T_LOCAL, T_NEXT>>, temperature_2m |-> <<"3.5">>]]
F_Z == [hourly |-> [time |-> <<T_UTC>>, temperature_2m |-> <<"1.5">>]]
F_DUP == [hourly |-> [time |-> <<T_LOCAL, T_LOCAL>>, temperature_2m |-> <<"1.5", "2.5">>]]
F_BADHOUR == [hourly |-> [time |-> <<T_LOCAL, T_BAD>>, temperature_2m |-> <<"1.5", "2.5">>]]
F_NOHOURLY == [timezone |-> "America/New_York"]
F_EMPTYHOURLY == [hourly |-> <<>>]
F_NOTIME == [hourly |-> [temperature_2m |-> <<"1.5">>]]

ForecastPayloads ==
    {F_A, F_SHORT, F_Z, F_DUP, F_BADHOUR, F_NOHOURLY, F_EMPTYHOURLY, F_NOTIME}

\* an entry of the catalog
CatalogPoint(name, coord) == [name |-> name, latitude |-> coord[1], longitude |-> coord[2]]

CatalogPoints ==
    {CatalogPoint("Shadyside", COORD_A), CatalogPoint("Oakland", COORD_B)}

----------------------------------------------------------------------------
(* Function calls on one cursor of one connection *)

NoCall == [fn |-> "", args |-> <<>>, ret |-> 0, exc |-> ""]

HistInit ==
    [loc |-> [k \in Namespaces \X Coords |-> [ids |-> {}, names |-> {}]],
     dates |-> {},
     cur |-> {},
     events |-> <<>>,
     ok |-> {},
     log |-> <<>>,
     written |-> {},
     catalog |-> BadCatalogFile("missing"),
     start |-> <<>>]

InitIdle ==
    /\ db = EmptyDb
    /\ tx = EmptyDb
    /\ seq = EmptySeq
    /\ prog = ""
    /\ pc = ""
    /\ input = <<>>
    /\ idx = 0
    /\ success_count = 0
    /\ error_count = 0
    /\ total_forecasts = 0
    /\ rows_cleared = 0
    /\ summary = <<>>
    /\ call = NoCall
    /\ hist = HistInit
    /\ ncalls = 0
    /\ writers = <<>>
    /\ rows = NoRows

InitCalls ==
    /\ schema \in Schemas
    /\ InitIdle

\* what a call leaves behind on the cursor
Called(c, fn, args) ==
    /\ tx' = c.tx
    /\ seq' = c.seq
    /\ call' = [fn |-> fn, args |-> args, ret |-> c.ret, exc |-> c.exc]
    /\ ncalls' = ncalls + 1
    /\ UNCHANGED <<schema, db, prog, pc, stageVars, concVars>>

NoteLocation(ns, coord, name, c) ==
    hist' = [hist EXCEPT !.loc[<<ns, coord>>] =
                [ids |-> @.ids \cup {c.ret}, names |-> @.names \cup {name}]]

Call_W_insert_or_update_location ==
    /\ ncalls < MaxCalls
    /\ \E name \in Names, coord \in Coords, board \in Boards :
         LET c == W_insert_or_update_location(Cursor(tx, seq), name, coord, board)
         IN /\ Called(c, "insert_or_update_location",
                      [ns |-> WEATHER_NS, name |-> name, coord |-> coord,
                       board |-> board, has_board |-> TRUE])
            /\ NoteLocation(WEATHER_NS, coord, name, c)

Call_F_insert_or_update_location ==
    /\ ncalls < MaxCalls
    /\ \E name \in Names, coord \in Coords :
         LET c == F_insert_or_update_location(Cursor(tx, seq), name, coord, schema)
         IN /\ Called(c, "insert_or_update_location",
                      [ns |-> schema, name |-> name, coord |-> coord,
                       board |-> None, has_board |-> FALSE])
            /\ NoteLocation(schema, coord, name, c)

NextLoc ==
    \/ Call_W_insert_or_update_location
    \/ Call_F_insert_or_update_location

SpecLoc == InitCalls /\ [][NextLoc]_vars

NoteDate(ns, observation_time, c) ==
    hist' = [hist EXCEPT !.dates = @ \cup {<<ns, DateOf(observation_time), c.ret>>}]

Resolved(ns) == {e[2] : e \in {x \in hist.dates : x[1] = ns}}

Call_W_get_or_create_date ==
    /\ ncalls < MaxCalls
    /\ \E observation_time \in DateTimes :
         LET c == W_get_or_create_date(Cursor(tx, seq), observation_time)
         IN /\ Called(c, "get_or_create_date",
                      [ns |-> WEATHER_NS, date |-> DateOf(observation_time),
                       again |-> DateOf(observation_time) \in Resolved(WEATHER_NS),
                       before |-> Cardinality(tx[WEATHER_NS].dim_date)])
            /\ NoteDate(WEATHER_NS, observation_time, c)

Call_F_get_or_create_date ==
    /\ ncalls < MaxCalls
    /\ \E observation_time \in DateTimes :
         LET c == get_or_create_date(Cursor(tx, seq), observation_time, schema)
         IN /\ Called(c, "get_or_create_date",
                      [ns |-> schema, date |-> DateOf(observation_time),
                       again |-> DateOf(observation_time) \in Resolved(schema),
                       before |-> Cardinality(tx[schema].dim_date)])
            /\ NoteDate(schema, observation_time, c)

NextDate ==
    \/ Call_W_get_or_create_date
    \/ Call_F_get_or_create_date

SpecDate == InitCalls /\ [][NextDate]_vars

----------------------------------------------------------------------------
(* Properties of the dimension functions *)

LocationRows(ns, coord) == {r \in tx[ns].dim_location : r.coord = coord}

\* C4: every call of insert_or_update_location for a coordinate pair returns
\* the location_id that every earlier call for that pair returned, and leaves
\* exactly one row for the pair, carrying the name (and, where the call has
\* one, the group label) of this call.
C4_SameIdSecondName ==
    call.fn = "insert_or_update_location" =>
        LET a == call.args
            stored == LocationRows(a.ns, a.coord)
        IN /\ call.exc = ""
           /\ hist.loc[<<a.ns, a.coord>>].ids = {call.ret}
           /\ Cardinality(stored) = 1
           /\ \A r \in stored :
                /\ r.location_id = call.ret
                /\ r.neighborhood_name = a.name
                /\ (a.has_board => r.community_board = a.board)

\* the pair was resolved with two different names, the last call with a
\* group label that differs from the one the row was created with
C4_Witness ==
    /\ call.fn = "insert_or_update_location"
    /\ ncalls = 2
    /\ Cardinality(hist.loc[<<call.args.ns, call.args.coord>>].names) = 2
    /\ call.args.has_board
    /\ call.args.board = "Manhattan 8"
    /\ call.ret = 1

\* C6: with a single writer, dim_date holds exactly one row per calendar date
\* that was resolved, every resolution of a date returned the date_id of that
\* row, and resolving a date again inserts no row.
C6_OneRowPerDate ==
    /\ \A ns \in Namespaces :
         /\ {r.date : r \in tx[ns].dim_date} = Resolved(ns)
         /\ Cardinality(tx[ns].dim_date) = Cardinality(Resolved(ns))
         /\ \A e \in hist.dates :
              e[1] = ns => \E r \in tx[ns].dim_date : r.date = e[2] /\ r.date_id = e[3]
    /\ call.fn = "get_or_create_date" =>
         /\ call.exc = ""
         /\ call.args.again =>
              Cardinality(tx[call.args.ns].dim_date) = call.args.before

\* a date is resolved a second time, after another date was resolved
C6_Witness ==
    /\ call.fn = "get_or_create_date"
    /\ call.args.again
    /\ call.ret = 1
    /\ Cardinality(tx[call.args.ns].dim_date) = 2

\* C9: every dim_date row has a weekday index in 0..6 with Monday = 0,
\* quarter = ((month - 1) div 3) + 1 and the weekend flag set exactly on
\* Saturday and Sunday; 2026-01-19 is weekday 0, quarter 1, no weekend, and
\* 2026-01-24 is a weekend day.
C9_DerivedDateFields ==
    \A ns \in Namespaces : \A r \in tx[ns].dim_date :
        /\ r.day_of_week \in 0..6
        /\ r.month = r.date[2]
        /\ r.quarter = ((r.month - 1) \div 3) + 1
        /\ (r.day_of_week = 0) <=> (r.day_name = "Monday")
        /\ r.is_weekend <=> r.day_name \in {"Saturday", "Sunday"}
        /\ r.date = <<2026, 1, 19>> =>
             r.day_of_week = 0 /\ r.quarter = 1 /\ ~ r.is_weekend
        /\ r.date = <<2026, 1, 24>> => r.is_weekend /\ r.day_of_week = 5
        /\ r.date = <<2026, 1, 18>> => r.is_weekend /\ r.day_of_week = 6
        /\ r.date = <<2026, 4, 1>> => r.quarter = 2 /\ r.day_of_week = 2
        /\ r.date = <<2024, 2, 29>> => r.day_of_week = 3

\* rows for the two dates of the example and a date of another quarter exist
C9_Witness ==
    \E ns \in Namespaces :
        {<<2026, 1, 19>>, <<2026, 1, 24>>, <<2026, 12, 31>>}
            \subseteq {r.date : r \in tx[ns].dim_date}

----------------------------------------------------------------------------
(* Observation writes on one cursor *)

LocationIds(ns) == {r.location_id : r \in tx[ns].dim_location}

Call_insert_weather_observation ==
    /\ ncalls < MaxCalls
    /\ \E location_id \in LocationIds(WEATHER_NS), weather_data \in CurrentPayloads :
         LET c == insert_weather_observation(Cursor(tx, seq), location_id, weather_data)
         IN /\ Called(c, "insert_weather_observation",
                      [location_id |-> location_id, weather_data |-> weather_data])
            /\ hist' = [hist EXCEPT !.cur = IF c.exc = ""
                                              THEN @ \cup {[location_id |-> location_id,
                                                            current |-> weather_data.current]}
                                              ELSE @]

Call_insert_forecast_observations ==
    /\ ncalls < MaxCalls
    /\ \E location_id \in LocationIds(schema), forecast_data \in ForecastPayloads :
         LET c == insert_forecast_observations(Cursor(tx, seq), location_id,
                                               forecast_data, schema)
         IN /\ Called(c, "insert_forecast_observations",
                      [location_id |-> location_id, forecast_data |-> forecast_data])
            /\ UNCHANGED hist

NextObs ==
    \/ Call_W_insert_or_update_location
    \/ Call_F_insert_or_update_location
    \/ Call_insert_weather_observation
    \/ Call_insert_forecast_observations

SpecObs == InitCalls /\ [][NextObs]_vars

----------------------------------------------------------------------------
(* Properties of the observation writes *)

CurrentRows(location_id, observation_time) ==
    {r \in tx[WEATHER_NS].fact_current_weather :
        r.location_id = location_id /\ r.observation_time = observation_time}

\* C5: after insert_weather_observation succeeds, fact_current_weather holds
\* exactly one row for (location_id, observation time), and every measurement
\* field of it is the value of this call's payload: NULL for a field the
\* payload omits, whatever an earlier write for the key stored.
C5_LastWriteWins ==
    (call.fn = "insert_weather_observation" /\ call.exc = "") =>
        LET current == call.args.weather_data.current
            stored == CurrentRows(call.args.location_id,
                                  fromisoformat(ParseArg(current.time)))
        IN /\ Cardinality(stored) = 1
           /\ \A r \in stored : \A f \in CURRENT_FIELDS :
                r.m[f] = IF f \in DOMAIN current THEN current[f] ELSE None

\* the key was written before with another temperature and with is_day, which
\* the second payload omits
C5_Witness ==
    /\ call.fn = "insert_weather_observation"
    /\ call.exc = ""
    /\ call.args.weather_data = W_B
    /\ [location_id |-> call.args.location_id, current |-> W_A.current] \in hist.cur
    /\ \A r \in CurrentRows(call.args.location_id, fromisoformat(T_LOCAL)) :
         r.m["is_day"] = None /\ r.m["temperature_2m"] = "2.5"

\* the (time, date_id) pairs of the fact rows of a namespace
FactTimes(ns) ==
    {<<r.observation_time, r.date_id>> : r \in tx[ns].fact_current_weather}
        \cup {<<r.forecast_time, r.date_id>> : r \in tx[ns].fact_hourly_forecast}

\* C10: two fact rows whose timestamps denote the same instant, one written
\* without a UTC offset and one with an offset or 'Z', reference the same
\* dim_date row.
C10_SameInstantSameDateRow ==
    \A ns \in Namespaces : \A p, q \in FactTimes(ns) :
        (p[1].tz = "naive" /\ q[1].tz # "naive" /\ InstantOf(p[1]) = InstantOf(q[1]))
            => p[2] = q[2]

\* C25: two rows of a fact table for the same location whose timestamps
\* denote the same instant are one row: a time written without an offset and
\* the same instant written with one give the same key.
C25_SameInstantOneRow ==
    \A ns \in Namespaces :
       /\ \A r, q \in tx[ns].fact_current_weather :
             (/\ r.location_id = q.location_id
              /\ InstantOf(r.observation_time) = InstantOf(q.observation_time)) => r = q
       /\ \A r, q \in tx[ns].fact_hourly_forecast :
             (/\ r.location_id = q.location_id
              /\ InstantOf(r.forecast_time) = InstantOf(q.forecast_time)) => r = q

\* the payload has an hourly section with a non-empty time array of
\* timestamps that parse
WellTimed(forecast_data) ==
    /\ "hourly" \in DOMAIN forecast_data
    /\ "time" \in DOMAIN forecast_data.hourly
    /\ Len(forecast_data.hourly.time) > 0
    /\ \A k \in 1..Len(forecast_data.hourly.time) :
         ~ IsoFormatError(ParseArg(forecast_data.hourly.time[k]))

\* the last position of the time array that holds the time of position k
LastIndexOf(times, k) ==
    CHOOSE j \in k..Len(times) :
        /\ times[j] = times[k]
        /\ \A l \in (j + 1)..Len(times) : times[l] # times[k]

\* C11: insert_forecast_observations raises nothing for a payload whose time
\* array is usable, however short or absent its field arrays are, and the row
\* of every position i of the time array holds, per field, the element i of
\* the field's array, or NULL when the array is absent or ends before i.
C11_ShortArraysStoredAsNull ==
    (call.fn = "insert_forecast_observations" /\ WellTimed(call.args.forecast_data)) =>
        LET hourly == call.args.forecast_data.hourly
            times == hourly.time
        IN /\ call.exc = ""
           /\ call.ret = Len(times)
           /\ \A k \in 1..Len(times) :
                LET j == LastIndexOf(times, k)
                    stored == {r \in tx[schema].fact_hourly_forecast :
                                  /\ r.location_id = call.args.location_id
                                  /\ r.forecast_time = fromisoformat(ParseArg(times[k]))}
                IN /\ Cardinality(stored) = 1
                   /\ \A r \in stored : \A f \in FORECAST_FIELDS :
                        r.m[f] = IF f \in DOMAIN hourly /\ j <= Len(hourly[f])
                                 THEN hourly[f][j] ELSE None

\* a payload with two hours and one temperature was written: the second
\* hour's row has no temperature, and no row has a value for the absent rain
C11_Witness ==
    /\ call.fn = "insert_forecast_observations"
    /\ call.args.forecast_data = F_SHORT
    /\ call.exc = ""
    /\ \E r \in tx[schema].fact_hourly_forecast :
         /\ r.forecast_time = fromisoformat(T_NEXT)
         /\ r.m["temperature_2m"] = None
         /\ r.m["rain"] = None
    /\ \E r \in tx[schema].fact_hourly_forecast :
         /\ r.forecast_time = fromisoformat(T_LOCAL)
         /\ r.m["temperature_2m"] = "3.5"

----------------------------------------------------------------------------
(* The load stages of the DAG and the standalone main() of the forecast script *)

\* how many entries the list a loop iterates over has at most
MaxPoints == 2

Points ==
    {[neighborhood_name |-> "Shadyside", coord |-> COORD_A],
     [neighborhood_name |-> "Oakland", coord |-> COORD_B],
     [neighborhood_name |-> "Oakland", coord |-> COORD_A]}

T_PREV == TimeStr("T", <<2026, 1, 19>>, 22, "")

\* the payload of an earlier run
F_OLD == [hourly |-> [time |-> <<T_PREV, T_LOCAL>>, temperature_2m |-> <<"9.5", "8.5">>]]

\* forecast_observations, as extract_forecast_weather builds them
ForecastObs ==
    {[neighborhood_name |-> p.neighborhood_name, coord |-> p.coord, forecast_data |-> f] :
        p \in Points, f \in {F_A, F_SHORT, F_BADHOUR, F_EMPTYHOURLY}}

\* what the API answers to main() of the forecast script
ForecastFetches ==
    {HttpOk(F_A), HttpOk(F_SHORT), HttpOk(F_BADHOUR), HttpOk(F_NOTIME),
     HttpFails("Timeout"), HttpFails("HTTPError"), HttpFails("JSONDecodeError")}

\* weather_observations, as extract_current_weather builds them
WeatherObs ==
    {[neighborhood_name |-> p.neighborhood_name, coord |-> p.coord, weather_data |-> w] :
        p \in Points, w \in {W_A, W_B, W_NOTIME}}

SeqsUpTo(S, n) == UNION {[1..k -> S] : k \in 0..n}

\* the database an earlier forecast load left behind
PriorRun(ns) ==
    LET c == F_insert_or_update_location(Cursor(EmptyDb, EmptySeq), "Shadyside", COORD_A, ns)
    IN insert_forecast_observations(c, c.ret, F_OLD, ns)

InitLoad ==
    /\ schema \in Schemas
    /\ \E prior \in {Cursor(EmptyDb, EmptySeq), PriorRun(schema)} :
         /\ db = prior.tx
         /\ tx = prior.tx
         /\ seq = prior.seq
    /\ \/ prog = "load_forecast_weather" /\ pc = "clear"
             /\ input \in SeqsUpTo(ForecastObs, MaxPoints)
       \/ prog = "load_current_weather" /\ pc = "loop"
             /\ input \in SeqsUpTo(WeatherObs, MaxPoints)
       \/ prog = "forecast_main" /\ pc = "loop"
             /\ input \in SeqsUpTo(CatalogPoints, MaxPoints)
    /\ idx = 0
    /\ success_count = 0
    /\ error_count = 0
    /\ total_forecasts = 0
    /\ rows_cleared = 0
    /\ summary = <<>>
    /\ call = NoCall
    /\ hist = HistInit
    /\ ncalls = 0
    /\ writers = <<>>
    /\ rows = NoRows

Event(e) == [hist EXCEPT !.events = Append(@, e), !.log = Append(@, e)]

\* the rows the statements of a point put into the tables, by namespace and
\* table
Written(before, after) ==
    UNION {{[ns |-> ns, table |-> t, row |-> r] : r \in after[ns][t] \ before[ns][t]} :
              ns \in Namespaces, t \in DOMAIN EmptyTables}

\* a point's statements were sent on the cursor
Wrote(h, before, after) ==
    [h EXCEPT !.written = @ \cup Written(before, after)]

\* conn.rollback() that leaves the connection's writes in place
Rollback_KeepWrites(committed, view) == view

\* conn.rollback(): the connection sees the committed rows again
Rollback(committed, view) == committed

\* the classes "except Exception" catches: every exception the functions of
\* the loop body raise
PY_EXCEPTIONS ==
    {"ValueError", "TypeError", "KeyError", "AttributeError",
     "UniqueViolation", "ForeignKeyViolation",
     "ConnectionError", "Timeout", "HTTPError", "JSONDecodeError"}

\* an except clause that names ValueError only
Caught_ValueErrorOnly(e) == e = "ValueError"

\* except Exception as e
Caught(e) == e \in PY_EXCEPTIONS

\* the keys and rows of fact_hourly_forecast a point's write left on the cursor
ForecastKeys(location_id, forecast_data) ==
    {<<location_id, fromisoformat(ParseArg(forecast_data.hourly.time[k]))>> :
        k \in 1..Len(forecast_data.hourly.time)}

PointDone(i, keys, table) ==
    [i |-> i, keys |-> keys,
     rows |-> {r \in table : <<r.location_id, r.forecast_time>> \in keys}]

\* the clear without its conn.commit(): the TRUNCATE stays part of the
\* transaction of the loop
LFW_Clear_NoCommit ==
    /\ prog = "load_forecast_weather"
    /\ pc = "clear"
    /\ rows_cleared' = Cardinality(tx[schema].fact_hourly_forecast)
    /\ tx' = [tx EXCEPT ![schema].fact_hourly_forecast = {}]
    /\ pc' = "loop"
    /\ hist' = Event("clear")
    /\ UNCHANGED <<schema, db, seq, prog, input, idx, success_count, error_count,
                   total_forecasts, summary, call, ncalls, concVars>>

\* load_forecast_weather: SELECT COUNT(*), TRUNCATE TABLE, conn.commit()
LFW_Clear ==
    /\ prog = "load_forecast_weather"
    /\ pc = "clear"
    /\ rows_cleared' = Cardinality(tx[schema].fact_hourly_forecast)
    /\ tx' = [tx EXCEPT ![schema].fact_hourly_forecast = {}]
    /\ db' = tx'
    /\ pc' = "loop"
    /\ hist' = Event("clear")
    /\ UNCHANGED <<schema, seq, prog, input, idx, success_count, error_count,
                   total_forecasts, summary, call, ncalls, concVars>>

\* load_forecast_weather: one iteration of "for obs in forecast_observations"
LFW_Point ==
    /\ prog = "load_forecast_weather"
    /\ pc = "loop"
    /\ idx < Len(input)
    /\ LET obs == input[idx + 1]
           c1 == F_insert_or_update_location(Cursor(tx, seq), obs.neighborhood_name,
                                             obs.coord, schema)
           location_id == c1.ret
           c2 == insert_forecast_observations(c1, location_id, obs.forecast_data, schema)
           forecast_count == c2.ret
           noted == Wrote(Event("insert"), tx, c2.tx)
       IN /\ seq' = c2.seq
          /\ IF c2.exc = ""
             THEN /\ tx' = c2.tx
                  /\ total_forecasts' = total_forecasts + forecast_count
                  /\ success_count' = success_count + 1
                  /\ hist' = [noted EXCEPT !.ok = @ \cup
                                 {PointDone(idx + 1,
                                            ForecastKeys(location_id, obs.forecast_data),
                                            c2.tx[schema].fact_hourly_forecast)}]
                  /\ idx' = idx + 1
                  /\ UNCHANGED <<error_count, pc>>
             ELSE IF Caught(c2.exc)
                  THEN /\ error_count' = error_count + 1
                       /\ tx' = db
                       /\ hist' = noted
                       /\ idx' = idx + 1
                       /\ UNCHANGED <<total_forecasts, success_count, pc>>
                  ELSE /\ pc' = "raised"
                       /\ tx' = db
                       /\ hist' = noted
                       /\ UNCHANGED <<total_forecasts, success_count, error_count, idx>>
    /\ UNCHANGED <<schema, db, prog, input, rows_cleared, summary, call, ncalls,
                   concVars>>

\* load_forecast_weather: conn.commit(), the summary, return
LFW_Return ==
    /\ prog = "load_forecast_weather"
    /\ pc = "loop"
    /\ idx = Len(input)
    /\ db' = tx
    /\ summary' = [rows_cleared |-> rows_cleared,
                   total_neighborhoods |-> Len(input),
                   successful_loads |-> success_count,
                   failed_loads |-> error_count,
                   total_forecasts |-> total_forecasts]
    /\ pc' = "done"
    /\ UNCHANGED <<schema, tx, seq, prog, input, idx, success_count, error_count,
                   total_forecasts, rows_cleared, call, hist, ncalls, concVars>>

\* forecast main(): one iteration of "for neighborhood in neighborhoods";
\* response is what the API answers for this neighborhood
MF_Point ==
    /\ prog = "forecast_main"
    /\ pc = "loop"
    /\ idx < Len(input)
    /\ \E response \in ForecastFetches :
         LET neighborhood == input[idx + 1]
             name == neighborhood.name
             lat == neighborhood.latitude
             lon == neighborhood.longitude
             fetched == get_forecast_data(response)
             forecast_data == fetched.ret
             c1 == F_insert_or_update_location(Cursor(tx, seq), name, <<lat, lon>>, schema)
             location_id == c1.ret
             c2 == insert_forecast_observations(c1, location_id, forecast_data, schema)
             forecast_count == c2.ret
             asked == [hist EXCEPT !.log = Append(@, "fetch")]
             noted == Wrote([asked EXCEPT !.events = Append(@, "insert"),
                                          !.log = Append(@, "insert")],
                            tx, c2.tx)
         IN IF fetched.exc # ""
            THEN IF Caught(fetched.exc)
                 THEN /\ error_count' = error_count + 1
                      /\ tx' = db
                      /\ hist' = asked
                      /\ idx' = idx + 1
                      /\ UNCHANGED <<db, seq, success_count, total_forecasts, pc>>
                 ELSE /\ pc' = "raised"
                      /\ tx' = db
                      /\ hist' = asked
                      /\ UNCHANGED <<db, seq, success_count, total_forecasts,
                                     error_count, idx>>
            ELSE IF ~ Truthy(forecast_data)
                 THEN /\ error_count' = error_count + 1
                      /\ hist' = [asked EXCEPT !.log = Append(@, "no data")]
                      /\ idx' = idx + 1
                      /\ UNCHANGED <<db, tx, seq, success_count, total_forecasts, pc>>
                 ELSE /\ seq' = c2.seq
                      /\ IF c2.exc = ""
                         THEN /\ tx' = c2.tx
                              /\ db' = c2.tx
                              /\ success_count' = success_count + 1
                              /\ total_forecasts' = total_forecasts + forecast_count
                              /\ hist' = [noted EXCEPT !.ok = @ \cup
                                             {PointDone(idx + 1,
                                                        ForecastKeys(location_id, forecast_data),
                                                        c2.tx[schema].fact_hourly_forecast)}]
                              /\ idx' = idx + 1
                              /\ UNCHANGED <<error_count, pc>>
                         ELSE IF Caught(c2.exc)
                              THEN /\ error_count' = error_count + 1
                                   /\ tx' = Rollback(db, c2.tx)
                                   /\ hist' = noted
                                   /\ idx' = idx + 1
                                   /\ UNCHANGED <<db, success_count, total_forecasts, pc>>
                              ELSE /\ pc' = "raised"
                                   /\ tx' = db
                                   /\ hist' = noted
                                   /\ UNCHANGED <<db, success_count, total_forecasts,
                                                  error_count, idx>>
    /\ UNCHANGED <<schema, prog, input, rows_cleared, summary, call, ncalls, concVars>>

\* forecast main(): cursor.close(), conn.close(), the printed tallies
MF_Close ==
    /\ prog = "forecast_main"
    /\ pc = "loop"
    /\ idx = Len(input)
    /\ tx' = db
    /\ summary' = [successful |-> success_count,
                   errors |-> error_count,
                   total_forecasts |-> total_forecasts]
    /\ pc' = "done"
    /\ UNCHANGED <<schema, db, seq, prog, input, idx, success_count, error_count,
                   total_forecasts, rows_cleared, call, hist, ncalls, concVars>>

\* insert_weather_observation(cursor, location_id, weather_data) called with a
\* fourth positional argument, as load_current_weather calls it: TypeError
\* before the body runs
insert_weather_observation_4(c, location_id, weather_data, extra) ==
    Raise(c, "TypeError")

CurrentKeys(location_id, weather_data) ==
    {<<location_id, fromisoformat(ParseArg(weather_data.current.time))>>}

\* load_current_weather: one iteration of "for obs in weather_observations";
\* the schema is passed where insert_or_update_location takes community_board
LCW_Point ==
    /\ prog = "load_current_weather"
    /\ pc = "loop"
    /\ idx < Len(input)
    /\ LET obs == input[idx + 1]
           c1 == W_insert_or_update_location(Cursor(tx, seq), obs.neighborhood_name,
                                             obs.coord, schema)
           location_id == c1.ret
           c2 == insert_weather_observation_4(c1, location_id, obs.weather_data, schema)
           noted == Wrote([hist EXCEPT !.log = Append(@, "insert")], tx, c2.tx)
       IN /\ seq' = c2.seq
          /\ IF c2.exc = ""
             THEN /\ tx' = c2.tx
                  /\ success_count' = success_count + 1
                  /\ hist' = [noted EXCEPT !.ok = @ \cup
                                 {[i |-> idx + 1,
                                   keys |-> CurrentKeys(location_id, obs.weather_data),
                                   rows |-> {}]}]
                  /\ idx' = idx + 1
                  /\ UNCHANGED <<error_count, pc>>
             ELSE IF Caught(c2.exc)
                  THEN /\ error_count' = error_count + 1
                       /\ tx' = db
                       /\ hist' = noted
                       /\ idx' = idx + 1
                       /\ UNCHANGED <<success_count, pc>>
                  ELSE /\ pc' = "raised"
                       /\ tx' = db
                       /\ hist' = noted
                       /\ UNCHANGED <<success_count, error_count, idx>>
    /\ UNCHANGED <<schema, db, prog, input, total_forecasts, rows_cleared, summary,
                   call, ncalls, concVars>>

\* load_current_weather: conn.commit(), the summary, return
LCW_Return ==
    /\ prog = "load_current_weather"
    /\ pc = "loop"
    /\ idx = Len(input)
    /\ db' = tx
    /\ summary' = [total_observations |-> Len(input),
                   successful_loads |-> success_count,
                   failed_loads |-> error_count]
    /\ pc' = "done"
    /\ UNCHANGED <<schema, tx, seq, prog, input, idx, success_count, error_count,
                   total_forecasts, rows_cleared, call, hist, ncalls, concVars>>

NextLoad ==
    \/ LFW_Clear
    \/ LFW_Point
    \/ LFW_Return
    \/ LCW_Point
    \/ LCW_Return
    \/ MF_Point
    \/ MF_Close

SpecLoad == InitLoad /\ [][NextLoad]_vars

----------------------------------------------------------------------------
(* A whole run: the DAG's tasks from extract_coordinates on, following one  *)
(* of its two branches, and the main() of either script                    *)

\* how many points a catalog has at most
MaxCatalog == 3

Board(borough, board, neighborhoods) ==
    [borough |-> borough, board |-> board, neighborhoods |-> neighborhoods]

\* the three shapes of coordinates.json: a list of points, a dict with the
\* list under 'neighborhoods', and a dict with community boards that hold
\* the points
ListCatalog(ps) == CatalogFile(JsonList(ps))
FlatCatalog(ps) == CatalogFile(JsonDict([neighborhoods |-> ps]))
GroupedCatalog(ps) ==
    CatalogFile(JsonDict([community_boards |->
        IF Len(ps) <= 1
        THEN <<Board("Manhattan", "8", ps)>>
        ELSE <<Board("Manhattan", "8", SubSeq(ps, 1, 1)),
               Board("Brooklyn", "1", SubSeq(ps, 2, Len(ps)))>>]))

Catalogs ==
    UNION {{ListCatalog(ps), FlatCatalog(ps), GroupedCatalog(ps)} :
              ps \in SeqsUpTo(CatalogPoints, MaxCatalog)}
        \cup {BadCatalogFile(f) : f \in {"missing", "unreadable", "invalid"}}

\* what the API answers to a request for current weather
CurrentFetches ==
    {HttpOk(W_A), HttpOk(W_NOTIME),
     HttpFails("Timeout"), HttpFails("HTTPError"), HttpFails("JSONDecodeError")}

\* psycopg2.connect(...): the connection, or OperationalError when a setting
\* is missing or the server refuses
ConnectOutcomes == {"ok", "OperationalError"}

InitRun ==
    /\ schema \in Schemas
    /\ \E prior \in {Cursor(EmptyDb, EmptySeq), PriorRun(schema)} :
         /\ db = prior.tx
         /\ tx = prior.tx
         /\ seq = prior.seq
    /\ prog \in {"extract_coordinates", "forecast_main", "weather_main"}
    /\ pc = "start"
    /\ input = <<>>
    /\ idx = 0
    /\ success_count = 0
    /\ error_count = 0
    /\ total_forecasts = 0
    /\ rows_cleared = 0
    /\ summary = <<>>
    /\ call = NoCall
    /\ hist = HistInit
    /\ ncalls = 0
    /\ writers = <<>>
    /\ rows = NoRows

Log(h, e) == [h EXCEPT !.log = Append(@, e)]

\* the requests for the first n points, each one that gave no data marked
RECURSIVE FetchLog(_, _)
FetchLog(fetched, n) ==
    IF n = 0
    THEN <<>>
    ELSE FetchLog(fetched, n - 1) \o
            (IF fetched[n].exc = "" /\ ~ Truthy(fetched[n].ret)
             THEN <<"fetch", "no data">>
             ELSE <<"fetch">>)

Fetched(h, fetched, n) == [h EXCEPT !.log = @ \o FetchLog(fetched, n)]

runFrame == <<schema, db, tx, seq, idx, success_count, error_count, total_forecasts,
              rows_cleared, summary, call, ncalls, concVars>>

\* task extract_coordinates: load_coordinates() of the weather script; its
\* return value goes to both extract tasks, of which the run follows one
DAG_extract_coordinates ==
    /\ prog = "extract_coordinates"
    /\ pc = "start"
    /\ \E catalog \in Catalogs :
         LET loaded == W_load_coordinates(catalog)
             h == [hist EXCEPT !.catalog = catalog]
         IN IF loaded.exc # ""
            THEN /\ pc' = "raised"
                 /\ hist' = Log(h, loaded.exc)
                 /\ UNCHANGED <<prog, input>>
            ELSE /\ \E next \in {"extract_current_weather", "extract_forecast_weather"} :
                      prog' = next
                 /\ pc' = "start"
                 /\ input' = loaded.ret
                 /\ hist' = Log(h, "load_coordinates")
    /\ UNCHANGED runFrame

\* the first index at which a fetch raises, 0 when none does
FirstRaise(fetched) ==
    IF \E i \in DOMAIN fetched : fetched[i].exc # ""
    THEN CHOOSE i \in DOMAIN fetched :
            /\ fetched[i].exc # ""
            /\ \A j \in 1..(i - 1) : fetched[j].exc = ""
    ELSE 0

\* task extract_current_weather: "for neighborhood in neighborhoods" over
\* what extract_coordinates returned; iterating a dict yields its keys, and
\* neighborhood['name'] on a key raises TypeError
DAG_extract_current_weather ==
    /\ prog = "extract_current_weather"
    /\ pc = "start"
    /\ LET neighborhoods == input
       IN IF neighborhoods.type = "dict"
          THEN IF DOMAIN neighborhoods.value = {}
               THEN /\ input' = <<>>
                    /\ prog' = "load_current_weather"
                    /\ pc' = "connect"
                    /\ UNCHANGED hist
               ELSE /\ pc' = "raised"
                    /\ hist' = Log(hist, "TypeError")
                    /\ UNCHANGED <<prog, input>>
          ELSE \E responses \in [1..Len(neighborhoods.value) -> CurrentFetches] :
                 LET n == Len(neighborhoods.value)
                     fetched == [i \in 1..n |-> get_weather_data(responses[i])]
                     weather_observations ==
                         [i \in 1..n |->
                             [neighborhood_name |-> neighborhoods.value[i].name,
                              coord |-> <<neighborhoods.value[i].latitude,
                                          neighborhoods.value[i].longitude>>,
                              weather_data |-> fetched[i].ret]]
                     k == FirstRaise(fetched)
                 IN IF k # 0
                    THEN /\ pc' = "raised"
                         /\ hist' = Log(Fetched(hist, fetched, k), fetched[k].exc)
                         /\ UNCHANGED <<prog, input>>
                    ELSE /\ input' = SelectSeq(weather_observations,
                                               LAMBDA o : Truthy(o.weather_data))
                         /\ prog' = "load_current_weather"
                         /\ pc' = "connect"
                         /\ hist' = Fetched(hist, fetched, n)
    /\ UNCHANGED runFrame

\* task extract_forecast_weather
DAG_extract_forecast_weather ==
    /\ prog = "extract_forecast_weather"
    /\ pc = "start"
    /\ LET neighborhoods == input
       IN IF neighborhoods.type = "dict"
          THEN IF DOMAIN neighborhoods.value = {}
               THEN /\ input' = <<>>
                    /\ prog' = "load_forecast_weather"
                    /\ pc' = "connect"
                    /\ UNCHANGED hist
               ELSE /\ pc' = "raised"
                    /\ hist' = Log(hist, "TypeError")
                    /\ UNCHANGED <<prog, input>>
          ELSE \E responses \in [1..Len(neighborhoods.value) -> ForecastFetches] :
                 LET n == Len(neighborhoods.value)
                     fetched == [i \in 1..n |-> get_forecast_data(responses[i])]
                     forecast_observations ==
                         [i \in 1..n |->
                             [neighborhood_name |-> neighborhoods.value[i].name,
                              coord |-> <<neighborhoods.value[i].latitude,
                                          neighborhoods.value[i].longitude>>,
                              forecast_data |-> fetched[i].ret]]
                     k == FirstRaise(fetched)
                 IN IF k # 0
                    THEN /\ pc' = "raised"
                         /\ hist' = Log(Fetched(hist, fetched, k), fetched[k].exc)
                         /\ UNCHANGED <<prog, input>>
                    ELSE /\ input' = SelectSeq(forecast_observations,
                                               LAMBDA o : Truthy(o.forecast_data))
                         /\ prog' = "load_forecast_weather"
                         /\ pc' = "connect"
                         /\ hist' = Fetched(hist, fetched, n)
    /\ UNCHANGED runFrame

\* load_current_weather / load_forecast_weather: os.getenv, get_db_connection(),
\* conn.cursor(); a failed connection fails the task
DAG_load_connect ==
    /\ prog \in {"load_current_weather", "load_forecast_weather"}
    /\ pc = "connect"
    /\ \E outcome \in ConnectOutcomes :
         IF outcome = "ok"
         THEN /\ pc' = IF prog = "load_forecast_weather" THEN "clear" ELSE "loop"
              /\ hist' = Log(hist, "connect")
         ELSE /\ pc' = "raised"
              /\ hist' = Log(hist, outcome)
    /\ UNCHANGED <<prog, input>>
    /\ UNCHANGED runFrame

\* run_dbt_models, once the load task has returned: subprocess.run of
\* 'dbt run'; a non-zero return code raises
DBT_Run ==
    /\ prog \in {"load_current_weather", "load_forecast_weather"}
    /\ pc = "done"
    /\ \E returncode \in 0..2 :
         /\ call' = [fn |-> "dbt run", args |-> <<>>, ret |-> returncode, exc |-> ""]
         /\ pc' = IF returncode # 0 THEN "raised" ELSE "test"
    /\ prog' = "run_dbt_models"
    /\ summary' = <<>>
    /\ hist' = Log(hist, "dbt run")
    /\ UNCHANGED <<schema, db, tx, seq, input, idx, success_count, error_count,
                   total_forecasts, rows_cleared, ncalls, concVars>>

\* run_dbt_models with a failing 'dbt test' treated like a failing 'dbt run'
DBT_Test_Fatal ==
    /\ prog = "run_dbt_models"
    /\ pc = "test"
    /\ \E returncode \in 0..2 :
         /\ summary' = IF returncode # 0 THEN <<>>
                        ELSE [run_success |-> call.ret = 0, tests_passed |-> TRUE]
         /\ call' = [fn |-> "dbt test", args |-> <<>>, ret |-> returncode, exc |-> ""]
         /\ pc' = IF returncode # 0 THEN "raised" ELSE "done"
    /\ hist' = Log(hist, "dbt test")
    /\ UNCHANGED <<schema, db, tx, seq, prog, input, idx, success_count, error_count,
                   total_forecasts, rows_cleared, ncalls, concVars>>

\* run_dbt_models: subprocess.run of 'dbt test', the warning, dbt_summary
DBT_Test ==
    /\ prog = "run_dbt_models"
    /\ pc = "test"
    /\ \E returncode \in 0..2 :
         /\ summary' = [run_success |-> call.ret = 0, tests_passed |-> returncode = 0]
         /\ call' = [fn |-> "dbt test", args |-> <<>>, ret |-> returncode, exc |-> ""]
    /\ pc' = "done"
    /\ hist' = Log(hist, "dbt test")
    /\ UNCHANGED <<schema, db, tx, seq, prog, input, idx, success_count, error_count,
                   total_forecasts, rows_cleared, ncalls, concVars>>

\* forecast main(): load_coordinates() in its try; the three classes it
\* names end the run with a message, any other propagates
MF_Load ==
    /\ prog = "forecast_main"
    /\ pc = "start"
    /\ \E catalog \in Catalogs :
         LET loaded == F_load_coordinates(catalog)
             h == [hist EXCEPT !.catalog = catalog]
         IN IF loaded.exc \in {"FileNotFoundError", "JSONDecodeError", "KeyError"}
            THEN /\ pc' = "aborted"
                 /\ hist' = Log(h, loaded.exc)
                 /\ UNCHANGED input
            ELSE IF loaded.exc # ""
                 THEN /\ pc' = "raised"
                      /\ hist' = Log(h, loaded.exc)
                      /\ UNCHANGED input
                 ELSE /\ pc' = "connect"
                      /\ input' = loaded.ret
                      /\ hist' = Log(h, "load_coordinates")
    /\ UNCHANGED prog
    /\ UNCHANGED runFrame

\* forecast main(): get_db_connection() in its try
MF_Connect ==
    /\ prog = "forecast_main"
    /\ pc = "connect"
    /\ \E outcome \in ConnectOutcomes :
         IF outcome = "ok"
         THEN /\ pc' = "loop"
              /\ hist' = Log(hist, "connect")
         ELSE /\ pc' = "aborted"
              /\ hist' = Log(hist, outcome)
    /\ UNCHANGED <<prog, input>>
    /\ UNCHANGED runFrame

\* the neighborhoods the nested loops of the weather main() go through, each
\* with the borough and board of its community board
RECURSIVE FlattenBoards(_)
FlattenBoards(community_boards) ==
    IF Len(community_boards) = 0
    THEN <<>>
    ELSE LET cb == Head(community_boards)
         IN [i \in 1..Len(cb.neighborhoods) |->
                [borough |-> cb.borough, board |-> cb.board,
                 neighborhood_data |-> cb.neighborhoods[i]]]
              \o FlattenBoards(Tail(community_boards))

\* weather main(): load_coordinates() and data.get('community_boards', [])
\* in its try, which names FileNotFoundError and JSONDecodeError; a list has
\* no get
MW_Load ==
    /\ prog = "weather_main"
    /\ pc = "start"
    /\ \E catalog \in Catalogs :
         LET loaded == W_load_coordinates(catalog)
             data == loaded.ret
             exc == IF loaded.exc # "" THEN loaded.exc
                    ELSE IF data.type = "list" THEN "AttributeError" ELSE ""
             community_boards ==
                 IF "community_boards" \in DOMAIN data.value
                 THEN data.value.community_boards ELSE <<>>
             h == [hist EXCEPT !.catalog = catalog]
         IN IF exc \in {"FileNotFoundError", "JSONDecodeError"}
            THEN /\ pc' = "aborted"
                 /\ hist' = Log(h, exc)
                 /\ UNCHANGED input
            ELSE IF exc # ""
                 THEN /\ pc' = "raised"
                      /\ hist' = Log(h, exc)
                      /\ UNCHANGED input
                 ELSE /\ pc' = "connect"
                      /\ input' = FlattenBoards(community_boards)
                      /\ hist' = Log(h, "load_coordinates")
    /\ UNCHANGED prog
    /\ UNCHANGED runFrame

\* weather main(): get_db_connection() in its try
MW_Connect ==
    /\ prog = "weather_main"
    /\ pc = "connect"
    /\ \E outcome \in ConnectOutcomes :
         IF outcome = "ok"
         THEN /\ pc' = "loop"
              /\ hist' = Log(hist, "connect")
         ELSE /\ pc' = "aborted"
              /\ hist' = Log(hist, outcome)
    /\ UNCHANGED <<prog, input>>
    /\ UNCHANGED runFrame

\* weather main(): one iteration of the inner loop; response is what the API
\* answers for this neighborhood
MW_Point ==
    /\ prog = "weather_main"
    /\ pc = "loop"
    /\ idx < Len(input)
    /\ \E response \in CurrentFetches :
         LET borough == input[idx + 1].borough
             board == input[idx + 1].board
             community_board == borough \o " " \o board
             neighborhood_data == input[idx + 1].neighborhood_data
             neighborhood_name == neighborhood_data.name
             latitude == neighborhood_data.latitude
             longitude == neighborhood_data.longitude
             full_name == borough \o " - " \o neighborhood_name
             fetched == get_weather_data(response)
             weather_data == fetched.ret
             c1 == W_insert_or_update_location(Cursor(tx, seq), full_name,
                                               <<latitude, longitude>>, community_board)
             location_id == c1.ret
             c2 == insert_weather_observation(c1, location_id, weather_data)
             asked == Log(hist, "fetch")
             noted == Wrote(Log(asked, "insert"), tx, c2.tx)
         IN IF fetched.exc # ""
            THEN IF Caught(fetched.exc)
                 THEN /\ error_count' = error_count + 1
                      /\ tx' = db
                      /\ hist' = asked
                      /\ idx' = idx + 1
                      /\ UNCHANGED <<db, seq, success_count, pc>>
                 ELSE /\ pc' = "raised"
                      /\ tx' = db
                      /\ hist' = asked
                      /\ UNCHANGED <<db, seq, success_count, error_count, idx>>
            ELSE IF ~ Truthy(weather_data)
                 THEN /\ error_count' = error_count + 1
                      /\ hist' = Log(asked, "no data")
                      /\ idx' = idx + 1
                      /\ UNCHANGED <<db, tx, seq, success_count, pc>>
                 ELSE /\ seq' = c2.seq
                      /\ IF c2.exc = ""
                         THEN /\ tx' = c2.tx
                              /\ db' = c2.tx
                              /\ success_count' = success_count + 1
                              /\ hist' = [noted EXCEPT !.ok = @ \cup
                                             {[i |-> idx + 1,
                                               keys |-> CurrentKeys(location_id, weather_data),
                                               rows |-> {}]}]
                              /\ idx' = idx + 1
                              /\ UNCHANGED <<error_count, pc>>
                         ELSE IF Caught(c2.exc)
                              THEN /\ error_count' = error_count + 1
                                   /\ tx' = Rollback(db, c2.tx)
                                   /\ hist' = noted
                                   /\ idx' = idx + 1
                                   /\ UNCHANGED <<db, success_count, pc>>
                              ELSE /\ pc' = "raised"
                                   /\ tx' = db
                                   /\ hist' = noted
                                   /\ UNCHANGED <<db, success_count, error_count, idx>>
    /\ UNCHANGED <<schema, prog, input, total_forecasts, rows_cleared, summary, call,
                   ncalls, concVars>>

\* weather main(): cursor.close(), conn.close(), the printed tallies
MW_Close ==
    /\ prog = "weather_main"
    /\ pc = "loop"
    /\ idx = Len(input)
    /\ tx' = db
    /\ summary' = [successful |-> success_count, errors |-> error_count]
    /\ pc' = "done"
    /\ UNCHANGED <<schema, db, seq, prog, input, idx, success_count, error_count,
                   total_forecasts, rows_cleared, call, hist, ncalls, concVars>>

NextRun ==
    \/ DAG_extract_coordinates
    \/ DAG_extract_current_weather
    \/ DAG_extract_forecast_weather
    \/ DAG_load_connect
    \/ LCW_Point
    \/ LCW_Return
    \/ LFW_Clear
    \/ LFW_Point
    \/ LFW_Return
    \/ DBT_Run
    \/ DBT_Test
    \/ MF_Load
    \/ MF_Connect
    \/ MF_Point
    \/ MF_Close
    \/ MW_Load
    \/ MW_Connect
    \/ MW_Point
    \/ MW_Close

SpecRun == InitRun /\ [][NextRun]_vars

----------------------------------------------------------------------------
(* A load stage executed, possibly cut short, and executed again with the   *)
(* same list                                                                *)

InitReplay ==
    /\ schema \in Schemas
    /\ \E prior \in {Cursor(EmptyDb, EmptySeq), PriorRun(schema)} :
         /\ db = prior.tx
         /\ tx = prior.tx
         /\ seq = prior.seq
         /\ hist = [HistInit EXCEPT !.start = [db |-> prior.tx, seq |-> prior.seq,
                                                execution |-> 1]]
    /\ \/ prog = "load_forecast_weather" /\ pc = "clear"
             /\ input \in SeqsUpTo(ForecastObs, MaxPoints)
       \/ prog = "load_current_weather" /\ pc = "loop"
             /\ input \in SeqsUpTo(WeatherObs, MaxPoints)
    /\ idx = 0
    /\ success_count = 0
    /\ error_count = 0
    /\ total_forecasts = 0
    /\ rows_cleared = 0
    /\ summary = <<>>
    /\ call = NoCall
    /\ ncalls = 0
    /\ writers = <<>>
    /\ rows = NoRows

\* the task's process is killed (timeout of the scheduler): the connection
\* is lost and with it what it had not committed
Interrupt ==
    /\ prog \in {"load_current_weather", "load_forecast_weather"}
    /\ pc \in {"clear", "loop"}
    /\ hist.start.execution = 1
    /\ pc' = "interrupted"
    /\ tx' = db
    /\ UNCHANGED <<schema, db, seq, prog, input, idx, success_count, error_count,
                   total_forecasts, rows_cleared, summary, call, hist, ncalls, concVars>>

\* the scheduler runs the task again, with the same argument: a new
\* connection, the counters at 0
Rerun ==
    /\ prog \in {"load_current_weather", "load_forecast_weather"}
    /\ pc \in {"done", "interrupted"}
    /\ hist.start.execution = 1
    /\ hist' = [hist EXCEPT !.start.execution = 2]
    /\ pc' = IF prog = "load_forecast_weather" THEN "clear" ELSE "loop"
    /\ tx' = db
    /\ idx' = 0
    /\ success_count' = 0
    /\ error_count' = 0
    /\ total_forecasts' = 0
    /\ rows_cleared' = 0
    /\ summary' = <<>>
    /\ UNCHANGED <<schema, db, seq, prog, input, call, ncalls, concVars>>

NextReplay ==
    \/ LCW_Point
    \/ LCW_Return
    \/ LFW_Clear
    \/ LFW_Point
    \/ LFW_Return
    \/ Interrupt
    \/ Rerun

SpecReplay == InitReplay /\ [][NextReplay]_vars

\* load_forecast_weather's loop and final commit as one computation: the
\* committed tables it leaves, from the connection's view c over the list
RECURSIVE LFW_Loop(_, _, _)
LFW_Loop(committed, c, forecast_observations) ==
    IF Len(forecast_observations) = 0
    THEN c.tx
    ELSE LET obs == Head(forecast_observations)
             c1 == F_insert_or_update_location(Cursor(c.tx, c.seq), obs.neighborhood_name,
                                               obs.coord, schema)
             c2 == insert_forecast_observations(c1, c1.ret, obs.forecast_data, schema)
         IN IF c2.exc = ""
            THEN LFW_Loop(committed, c2, Tail(forecast_observations))
            ELSE LFW_Loop(committed, Cursor(committed, c2.seq), Tail(forecast_observations))

\* one uninterrupted execution of load_forecast_weather on the tables d
LFW_Once(d, sq, forecast_observations) ==
    LET cleared == [d EXCEPT ![schema].fact_hourly_forecast = {}]
    IN LFW_Loop(cleared, Cursor(cleared, sq), forecast_observations)

\* load_current_weather's loop and final commit as one computation
RECURSIVE LCW_Loop(_, _, _)
LCW_Loop(committed, c, weather_observations) ==
    IF Len(weather_observations) = 0
    THEN c.tx
    ELSE LET obs == Head(weather_observations)
             c1 == W_insert_or_update_location(Cursor(c.tx, c.seq), obs.neighborhood_name,
                                               obs.coord, schema)
             c2 == insert_weather_observation_4(c1, c1.ret, obs.weather_data, schema)
         IN IF c2.exc = ""
            THEN LCW_Loop(committed, c2, Tail(weather_observations))
            ELSE LCW_Loop(committed, Cursor(committed, c2.seq), Tail(weather_observations))

\* the committed tables one uninterrupted execution of the stage leaves when
\* started where the first execution started
Once ==
    IF prog = "load_forecast_weather"
    THEN LFW_Once(hist.start.db, hist.start.seq, input)
    ELSE LCW_Loop(hist.start.db, Cursor(hist.start.db, hist.start.seq), input)

\* the rows of the tables t with the generated keys replaced by what they
\* stand for: a location_id by the coordinates of its location, a date_id by
\* its date
ByNaturalKey(t) ==
    LET coordOf(id) == (CHOOSE l \in t.dim_location : l.location_id = id).coord
        dateOf(id) == (CHOOSE r \in t.dim_date : r.date_id = id).date
    IN [dim_location |-> {[l EXCEPT !.location_id = l.coord] : l \in t.dim_location},
        dim_date |-> {[r EXCEPT !.date_id = r.date] : r \in t.dim_date},
        fact_current_weather |->
            {[r EXCEPT !.location_id = coordOf(r.location_id), !.date_id = dateOf(r.date_id)] :
                r \in t.fact_current_weather},
        fact_hourly_forecast |->
            {[r EXCEPT !.location_id = coordOf(r.location_id), !.date_id = dateOf(r.date_id)] :
                r \in t.fact_hourly_forecast}]

----------------------------------------------------------------------------
(* Properties of the load stages *)

Returned(p) == prog = p /\ pc = "done"

CommittedKeys ==
    IF prog = "load_current_weather"
    THEN {<<r.location_id, r.observation_time>> : r \in db[WEATHER_NS].fact_current_weather}
    ELSE {<<r.location_id, r.forecast_time>> : r \in db[schema].fact_hourly_forecast}

\* C1: when load_current_weather or load_forecast_weather has returned, the
\* committed fact table holds a row for every key that a point processed
\* without error wrote, whatever happened to the points after it.
C1_SuccessfulPointsCommitted ==
    (Returned("load_current_weather") \/ Returned("load_forecast_weather")) =>
        \A e \in hist.ok : e.keys \subseteq CommittedKeys

\* the rows in effect after the writes of the points that succeeded: each
\* point's rows, but for the keys a later successful point wrote again
RowsOfWrites ==
    {r \in UNION {e.rows : e \in hist.ok} :
        \A e \in hist.ok : \A q \in e.rows :
            (q.location_id = r.location_id /\ q.forecast_time = r.forecast_time /\ q # r)
                => \E e2 \in hist.ok : r \in e2.rows /\ e2.i > e.i}

\* C2: when load_forecast_weather has returned, the committed forecast table
\* is exactly the union of the rows of the per-location writes of this run.
C2_ExactlyThisRunsRows ==
    Returned("load_forecast_weather") =>
        db[schema].fact_hourly_forecast = RowsOfWrites

\* the points processed without error whose fact rows are committed
PointsCommitted == {e \in hist.ok : e.keys \subseteq CommittedKeys}

DistinctLocations ==
    \A j, k \in 1..Len(input) : j # k => input[j].coord # input[k].coord

\* C26: when a load stage has returned, successful_loads of its summary is
\* the number of input points whose rows are committed, and total_forecasts,
\* for points of distinct locations, is the number of committed rows of
\* fact_hourly_forecast.
C26_SummaryDescribesCommitted ==
    /\ Returned("load_forecast_weather") =>
          /\ summary.successful_loads = Cardinality(PointsCommitted)
          /\ DistinctLocations =>
                summary.total_forecasts = Cardinality(db[schema].fact_hourly_forecast)
    /\ Returned("load_current_weather") =>
          summary.successful_loads = Cardinality(PointsCommitted)

\* C28: a point counted as successful has written a row for every hour of
\* its payload, and a committed forecast row this run wrote is a row of a
\* point counted as successful: a point that fails at some hour leaves none
\* of its earlier hours committed.
C28_HoursAllOrNone ==
    prog \in {"load_forecast_weather", "forecast_main"} =>
        /\ \A e \in hist.ok : \A key \in e.keys :
              \E r \in e.rows : <<r.location_id, r.forecast_time>> = key
        /\ \A w \in hist.written :
              (w.table = "fact_hourly_forecast" /\ w.row \in db[w.ns].fact_hourly_forecast)
                  => \E e \in hist.ok : w.row \in e.rows

\* a point failed at its second hour after its first hour was sent, and that
\* row is not committed, while the rows of the other point are
C28_Witness ==
    /\ prog \in {"load_forecast_weather", "forecast_main"}
    /\ pc = "done"
    /\ success_count = 1
    /\ error_count = 1
    /\ Cardinality(db[schema].fact_hourly_forecast) = 2
    /\ \E w \in hist.written :
          /\ w.table = "fact_hourly_forecast"
          /\ w.row.forecast_time = fromisoformat(T_LOCAL)
          /\ w.row \notin db[w.ns].fact_hourly_forecast

\* C3: in a run that has called insert_forecast_observations, DAG stage or
\* main(), the first event is the one clear of the forecast table and every
\* later event is an insert call.
C3_ClearedOnceBeforeInserts ==
    (\E k \in 1..Len(hist.events) : hist.events[k] = "insert") =>
        /\ hist.events[1] = "clear"
        /\ \A k \in 2..Len(hist.events) : hist.events[k] = "insert"

----------------------------------------------------------------------------
(* Two connections writing one point each at the same time: overlapping    *)
(* runs of the forecast load (DAG stage or main()) against one schema      *)

Writers == {1, 2}

ConcDates == {<<2026, 1, 19>>, <<2026, 1, 20>>}

\* a point's write: the location upsert, the date lookup and insert of its
\* first hour, then the rest of the point, which raises when the payload is
\* bad, and the commit
WriterInit ==
    [coord : Coords, name : Names, date : ConcDates, bad : BOOLEAN,
     pc : {"location"}, location_id : {0}, date_id : {0}, exc : {""}]

\* a location a committed earlier run left behind
PriorRows ==
    [dim_location |-> {[key |-> COORD_A, id |-> 1, val |-> "Shadyside",
                        by |-> 0, lock |-> 0, newval |-> None]},
     dim_date |-> {}]

InitConc ==
    /\ schema = DEFAULT_SCHEMA
    /\ writers \in [Writers -> WriterInit]
    /\ \/ rows = NoRows /\ seq = EmptySeq
       \/ rows = PriorRows /\ seq = [EmptySeq EXCEPT ![schema].dim_location = 1]
    /\ db = EmptyDb
    /\ tx = EmptyDb
    /\ prog = "concurrent"
    /\ pc = ""
    /\ input = <<>>
    /\ idx = 0
    /\ success_count = 0
    /\ error_count = 0
    /\ total_forecasts = 0
    /\ rows_cleared = 0
    /\ summary = <<>>
    /\ call = NoCall
    /\ hist = HistInit
    /\ ncalls = 0

concFrame == <<schema, db, tx, prog, pc, stageVars, call, hist, ncalls>>

\* the except branch of the loop: the point is counted as failed and the
\* transaction rolled back
Failed(w, rs, e) ==
    /\ writers' = [writers EXCEPT ![w].exc = e, ![w].pc = "failed"]
    /\ rows' = ConcRollback(rs, w)

W_Location(w) ==
    /\ writers[w].pc = "location"
    /\ LET new_id == seq[schema].dim_location + 1
           s == ConcUpsertLocation(rows, w, writers[w].name, writers[w].coord, new_id)
       IN /\ ~ s.blocked
          /\ seq' = [seq EXCEPT ![schema].dim_location = new_id]
          /\ IF s.exc = ""
             THEN /\ rows' = s.rows
                  /\ writers' = [writers EXCEPT ![w].location_id = s.ret,
                                                ![w].pc = "lookup"]
             ELSE Failed(w, s.rows, s.exc)
    /\ UNCHANGED concFrame

W_Lookup(w) ==
    /\ writers[w].pc = "lookup"
    /\ LET date_id == ConcLookupDate(rows, w, writers[w].date)
       IN writers' = [writers EXCEPT ![w].date_id = date_id,
                                     ![w].pc = IF date_id # 0 THEN "rest" ELSE "insert"]
    /\ UNCHANGED <<rows, seq>>
    /\ UNCHANGED concFrame

W_Insert(w) ==
    /\ writers[w].pc = "insert"
    /\ LET new_id == seq[schema].dim_date + 1
           s == ConcInsertDate(rows, w, writers[w].date, new_id)
       IN /\ ~ s.blocked
          /\ seq' = [seq EXCEPT ![schema].dim_date = new_id]
          /\ IF s.exc = ""
             THEN /\ rows' = s.rows
                  /\ writers' = [writers EXCEPT ![w].date_id = s.ret, ![w].pc = "rest"]
             ELSE Failed(w, s.rows, s.exc)
    /\ UNCHANGED concFrame

W_Rest(w) ==
    /\ writers[w].pc = "rest"
    /\ IF writers[w].bad
       THEN Failed(w, rows, "ValueError")
       ELSE /\ rows' = ConcCommit(rows, w)
            /\ writers' = [writers EXCEPT ![w].pc = "committed"]
    /\ UNCHANGED seq
    /\ UNCHANGED concFrame

NextConc ==
    \E w \in Writers :
        \/ W_Location(w)
        \/ W_Lookup(w)
        \/ W_Insert(w)
        \/ W_Rest(w)

SpecConc == InitConc /\ [][NextConc]_vars

----------------------------------------------------------------------------
(* Properties of concurrent writers *)

\* C7: a writer that resolves a date another writer is inserting does not
\* fail with a unique-constraint violation, and two writers that committed
\* after resolving the same date hold the same date_id.
C7_DateCollisionTolerated ==
    /\ \A w \in Writers : writers[w].exc # "UniqueViolation"
    /\ \A v, w \in Writers :
         (writers[v].pc = "committed" /\ writers[w].pc = "committed"
            /\ writers[v].date = writers[w].date)
             => writers[v].date_id = writers[w].date_id

\* C8: dim_location never holds two rows, committed or not, for one
\* coordinate pair; no location upsert raises; and every writer that resolved
\* a pair and has not rolled back holds the id of the pair's one row, so two
\* such writers of one pair hold the same location_id.
C8_OneRowPerCoordinate ==
    /\ \A coord \in Coords :
         Cardinality({r \in rows.dim_location : r.key = coord}) <= 1
    /\ \A w \in Writers :
         writers[w].pc \in {"lookup", "insert", "rest", "committed"} =>
             \E r \in rows.dim_location :
                 r.key = writers[w].coord /\ r.id = writers[w].location_id
    /\ \A w \in Writers : writers[w].exc \in {"", "ValueError"}
                            \/ writers[w].location_id # 0
    /\ \A v, w \in Writers :
         (writers[v].pc = "committed" /\ writers[w].pc = "committed"
            /\ writers[v].coord = writers[w].coord)
             => writers[v].location_id = writers[w].location_id

\* both writers committed the same pair, not stored before, under different
\* names
C8_Witness ==
    /\ writers[1].pc = "committed"
    /\ writers[2].pc = "committed"
    /\ writers[1].coord = COORD_B
    /\ writers[2].coord = COORD_B
    /\ writers[1].name # writers[2].name
    /\ \E r \in rows.dim_location : r.key = COORD_B /\ r.id = writers[1].location_id

----------------------------------------------------------------------------
(* Properties of whole runs *)

\* how often e stands in the log of the run
Count(e) == Cardinality({k \in 1..Len(hist.log) : hist.log[k] = e})

\* the number of points a request was sent for
Attempted == Count("fetch")


\* C12: the summary a load stage returns gives as total the number of points
\* the run sent a request for, and as failed all of them that were not
\* loaded, the ones whose fetch failed included; the tallies main() prints
\* add up to that number.
C12_TotalCountsEveryPoint ==
    /\ Returned("load_current_weather") =>
          /\ summary.total_observations = Attempted
          /\ summary.successful_loads + summary.failed_loads = Attempted
    /\ Returned("load_forecast_weather") =>
          /\ summary.total_neighborhoods = Attempted
          /\ summary.successful_loads + summary.failed_loads = Attempted
    /\ Returned("weather_main") =>
          summary.successful + summary.errors = Attempted

\* the points the extract task of the DAG is given
GivenPoints ==
    IF hist.catalog.json.type = "list" THEN Len(hist.catalog.json.value) ELSE 0

\* C13: a request that fails by timeout, HTTP error status or unparsable
\* body makes get_weather_data and get_forecast_data return None; no run
\* ends on an exception of a request, a point without data is followed
\* by the request of the next point (in the DAG, after the last point, by
\* the connection of the load stage) and never by a write, at most the
\* points with data are written, and the loop reaches the end of its list.
C13_FetchFailureSkipsThePoint ==
    /\ \A response \in CurrentFetches :
          response.error # "" => get_weather_data(response) = Returns(NO_RESPONSE)
    /\ \A response \in ForecastFetches :
          response.error # "" => get_forecast_data(response) = Returns(NO_RESPONSE)
    /\ pc = "raised" =>
          /\ hist.log[Len(hist.log)] \notin REQUEST_EXCEPTIONS \cup {"fetch", "no data"}
          /\ hist.log[Len(hist.log)] = "JSONDecodeError" => Len(hist.log) = 1
    /\ \A k \in 1..(Len(hist.log) - 1) :
          hist.log[k] = "no data" =>
              hist.log[k + 1] \in {"fetch", "connect", "OperationalError"}
    /\ Count("insert") <= Attempted - Count("no data")
    /\ prog \in {"load_current_weather", "load_forecast_weather"} =>
          Attempted = GivenPoints
    /\ (Returned("weather_main") \/ Returned("forecast_main")) =>
          Attempted = Len(input)

\* the weather main() and the DAG each went past a point whose request
\* failed and wrote the point after it
C13_Witness ==
    /\ \/ Returned("weather_main")
       \/ Returned("load_forecast_weather")
    /\ Count("no data") = 1
    /\ Count("fetch") = 2
    /\ Count("insert") = 1
    /\ success_count = 1
    /\ hist.log[Len(hist.log)] = "insert"

\* C14: every row a load stage of the DAG sends to the database goes to a
\* table of the namespace WEATHER_DB_SCHEMA names, and no location row
\* carries the name of that namespace as its community board.
C14_WritesOnlyConfiguredSchema ==
    prog \in {"load_current_weather", "load_forecast_weather"} =>
        \A w \in hist.written :
            /\ w.ns = schema
            /\ w.table = "dim_location" => w.row.community_board # schema

\* the second execution of the stage has returned
Replayed ==
    /\ prog \in {"load_current_weather", "load_forecast_weather"}
    /\ pc = "done"
    /\ hist.start.execution = 2

CONFIG_ERRORS ==
    {"FileNotFoundError", "PermissionError", "JSONDecodeError", "KeyError",
     "OperationalError"}

\* C16: a run that meets a configuration error, in the DAG or in a main(),
\* ends there, and has sent no request and no statement to the database
\* before.
C16_ConfigErrorBeforeFetchAndWrite ==
    \A k \in 1..Len(hist.log) :
        hist.log[k] \in CONFIG_ERRORS =>
            /\ k = Len(hist.log)
            /\ pc \in {"raised", "aborted"}
            /\ \A j \in 1..(k - 1) : hist.log[j] \notin {"fetch", "no data", "clear", "insert"}

\* the programs with a loop over points that writes
Loaders == {"load_current_weather", "load_forecast_weather", "weather_main", "forecast_main"}

\* C17: in a load stage and in a main(), every point the loop has gone
\* through is counted as loaded or as failed; such a program raises only
\* before its loop, while loading the catalog or connecting, never from a
\* point; and once its list is exhausted it returns the summary with both
\* tallies.
C17_PointErrorsAreTallied ==
    prog \in Loaders =>
        /\ pc \in {"loop", "done"} => success_count + error_count = idx
        /\ pc = "raised" =>
              /\ idx = 0
              /\ Count("insert") = 0
              /\ hist.log[Len(hist.log)] \notin {"fetch", "no data", "insert"}
        /\ pc = "done" =>
              /\ idx = Len(input)
              /\ prog \in {"load_current_weather", "load_forecast_weather"} =>
                    /\ summary.successful_loads = success_count
                    /\ summary.failed_loads = error_count
              /\ prog \in {"weather_main", "forecast_main"} =>
                    /\ summary.successful = success_count
                    /\ summary.errors = error_count

\* a load stage and a main() returned their summary after a point that
\* raised and a point that was loaded
C17_Witness ==
    /\ \/ Returned("load_forecast_weather")
       \/ Returned("weather_main")
    /\ error_count = 1
    /\ success_count = 1
    /\ Count("insert") = 2

\* C18: run_dbt_models raises exactly when 'dbt run' exits non-zero, and
\* has then not run 'dbt test'; after 'dbt run' exited with 0 it runs
\* 'dbt test' once and returns its summary whatever that exits with, with
\* run_success true and tests_passed telling whether the exit was 0.
C18_OnlyDbtRunIsFatal ==
    prog = "run_dbt_models" =>
        /\ pc = "raised" <=> (call.fn = "dbt run" /\ call.ret # 0)
        /\ pc = "raised" => Count("dbt test") = 0
        /\ pc = "test" => (call.fn = "dbt run" /\ call.ret = 0)
        /\ pc = "done" =>
              /\ call.fn = "dbt test"
              /\ Count("dbt test") = 1
              /\ summary.run_success = TRUE
              /\ summary.tests_passed = (call.ret = 0)

\* 'dbt test' exited non-zero and the stage returned its summary
C18_Witness ==
    /\ Returned("run_dbt_models")
    /\ call.fn = "dbt test"
    /\ call.ret # 0
    /\ summary = [run_success |-> TRUE, tests_passed |-> FALSE]

\* 'dbt run' exited non-zero and the stage raised
C18_WitnessRunFailed ==
    /\ prog = "run_dbt_models"
    /\ pc = "raised"
    /\ call.ret # 0
    /\ Count("dbt run") = 1

\* the points a readable catalog holds, whatever its shape
PointsOf(catalog) ==
    LET data == catalog.json
    IN IF data.type = "list" THEN data.value
       ELSE IF "neighborhoods" \in DOMAIN data.value THEN data.value.neighborhoods
       ELSE IF "community_boards" \in DOMAIN data.value
            THEN LET flat == FlattenBoards(data.value.community_boards)
                 IN [i \in 1..Len(flat) |-> flat[i].neighborhood_data]
            ELSE <<>>

\* the points the loop of a main() has been given
LoopPoints ==
    IF prog = "weather_main"
    THEN [i \in 1..Len(input) |-> input[i].neighborhood_data]
    ELSE input

\* C19: whichever shape a readable catalog has, no program fails on it, the
\* loop of a main() is given every point of it with name, latitude and
\* longitude, and the extract task of the DAG sends a request for every
\* point of it.
C19_BothShapesYieldEveryPoint ==
    hist.catalog.file = "ok" =>
        /\ hist.log[Len(hist.log)] \notin {"KeyError", "TypeError", "AttributeError"}
        /\ (prog \in {"weather_main", "forecast_main"} /\ pc \in {"connect", "loop", "done"}) =>
              LoopPoints = PointsOf(hist.catalog)
        /\ prog \in {"load_current_weather", "load_forecast_weather"} =>
              Attempted = Len(PointsOf(hist.catalog))

\* a forecast payload without its time data: no 'hourly' section or an empty
\* one, no time array or an empty one
NoTime(forecast_data) ==
    \/ "hourly" \notin DOMAIN forecast_data
    \/ "time" \notin DOMAIN forecast_data.hourly
    \/ Len(forecast_data.hourly.time) = 0

\* C20: on any tables, insert_weather_observation raises for a payload whose
\* 'current' section is absent or has no time, and insert_forecast_observations
\* for a payload without time data, and neither has then changed a fact table;
\* and when these are the only errors of a run, every point that was loaded
\* without error has its fact rows committed when the run has returned.
C20_MissingTimeRejectedForThatPointOnly ==
    /\ \A weather_data \in {W_NOTIME, W_NOCURRENT} :
          LET c == insert_weather_observation(Cursor(tx, seq), 1, weather_data)
          IN /\ c.exc = "ValueError"
             /\ c.tx[WEATHER_NS].fact_current_weather = tx[WEATHER_NS].fact_current_weather
    /\ \A forecast_data \in {F_NOHOURLY, F_EMPTYHOURLY, F_NOTIME} :
          LET c == insert_forecast_observations(Cursor(tx, seq), 1, forecast_data, schema)
          IN /\ NoTime(forecast_data)
             /\ c.exc = "ValueError"
             /\ c.tx[schema].fact_hourly_forecast = tx[schema].fact_hourly_forecast
    /\ (/\ Returned("load_forecast_weather")
        /\ \A i \in 1..Len(input) :
              WellTimed(input[i].forecast_data) \/ NoTime(input[i].forecast_data)) =>
          \A e \in hist.ok :
              e.keys \subseteq {<<r.location_id, r.forecast_time>> :
                                  r \in db[schema].fact_hourly_forecast}
    /\ Returned("forecast_main") =>
          \A e \in hist.ok :
              e.keys \subseteq {<<r.location_id, r.forecast_time>> :
                                  r \in db[schema].fact_hourly_forecast}
    /\ Returned("weather_main") =>
          \A e \in hist.ok :
              e.keys \subseteq {<<r.location_id, r.observation_time>> :
                                  r \in db[WEATHER_NS].fact_current_weather}

----------------------------------------------------------------------------
(* Properties of the clear of load_forecast_weather *)

\* C23: the step that clears the forecast table counts the committed rows,
\* and leaves the committed table empty; while the loop runs, whatever it
\* rolls back, the committed table stays empty; rows_cleared keeps the count
\* and the summary returns it: in a first execution the number of rows the
\* table held when the stage started.
C23_ClearIsCommittedFirst ==
    /\ [](prog = "load_forecast_weather" =>
            /\ pc = "loop" => db[schema].fact_hourly_forecast = {}
            /\ (pc \in {"loop", "done"} /\ hist.start.execution = 1) =>
                  rows_cleared = Cardinality(hist.start.db[schema].fact_hourly_forecast)
            /\ pc = "done" => summary.rows_cleared = rows_cleared)
    /\ [][(prog = "load_forecast_weather" /\ pc = "clear" /\ pc' = "loop") =>
              /\ rows_cleared' = Cardinality(db[schema].fact_hourly_forecast)
              /\ db'[schema].fact_hourly_forecast = {}
              /\ tx' = db']_vars

\* the stage cleared the rows of an earlier run, rolled a failed point back
\* and returned: none of the cleared rows is committed
C23_Witness ==
    /\ Returned("load_forecast_weather")
    /\ summary.rows_cleared = 2
    /\ summary.failed_loads = 1
    /\ hist.start.db[schema].fact_hourly_forecast # {}
    /\ db[schema].fact_hourly_forecast = {}

----------------------------------------------------------------------------
(* Properties of insert_forecast_observations *)

\* the forecast rows the connection sees for a location
HoursOf(location_id) ==
    {r \in tx[schema].fact_hourly_forecast : r.location_id = location_id}

\* C22: after a call of insert_forecast_observations that raised nothing, on
\* a table that holds no other hours for the location than those of the
\* payload (as after the clear), the number of forecast rows of the location
\* is the count the call returned.
C22_CountIsRowsWritten ==
    (/\ call.fn = "insert_forecast_observations"
     /\ call.exc = ""
     /\ \A r \in HoursOf(call.args.location_id) :
           r.forecast_time \in {fromisoformat(ParseArg(t)) :
                                   t \in {call.args.forecast_data.hourly.time[k] :
                                             k \in 1..Len(call.args.forecast_data.hourly.time)}})
        => Cardinality(HoursOf(call.args.location_id)) = call.ret

----------------------------------------------------------------------------
(* Properties of the loops of the two main() *)

\* C21: in the loop of a main(), nothing is uncommitted when a point starts;
\* a step of the loop either counts a success and commits what the point
\* wrote, or counts an error and leaves the committed tables as they were,
\* the connection seeing none of the point's writes any more.
C21_PointIsOneTransaction ==
    [][(prog \in {"weather_main", "forecast_main"} /\ pc = "loop" /\ idx' = idx + 1) =>
          /\ tx = db
          /\ tx' = db'
          /\ \/ /\ success_count' = success_count + 1
                /\ error_count' = error_count
             \/ /\ success_count' = success_count
                /\ error_count' = error_count + 1
                /\ db' = db]_vars

\* the forecast main() committed a point and then rolled back the location,
\* date and fact row a later point had written before it failed
C21_Witness ==
    /\ Returned("forecast_main")
    /\ success_count = 1
    /\ error_count = 1
    /\ db[schema].fact_hourly_forecast # {}
    /\ \A t \in {"dim_location", "dim_date", "fact_hourly_forecast"} :
          \E w \in hist.written : w.table = t /\ w.row \notin db[w.ns][t]

----------------------------------------------------------------------------
(* The loops of the two main() over catalog entries that may lack a field *)

ENTRY_FIELDS == {"name", "latitude", "longitude"}

\* catalog entries: the two points, and the first with fields left out
Entries ==
    CatalogPoints \cup
        {[f \in D |-> CatalogPoint("Shadyside", COORD_A)[f]] : D \in SUBSET ENTRY_FIELDS}

\* what the loop of a main() goes through: the forecast script the entries
\* of data['neighborhoods'], the weather script the neighborhoods of a board
LoopInputs(p) ==
    IF p = "forecast_main"
    THEN SeqsUpTo(Entries, MaxPoints)
    ELSE {[i \in DOMAIN es |->
              [borough |-> "Manhattan", board |-> "8", neighborhood_data |-> es[i]]] :
             es \in SeqsUpTo(Entries, MaxPoints)}

\* the main() after load_coordinates() and get_db_connection()
InitEntries ==
    /\ schema \in Schemas
    /\ prog \in {"forecast_main", "weather_main"}
    /\ pc = "loop"
    /\ input \in LoopInputs(prog)
    /\ db = EmptyDb
    /\ tx = EmptyDb
    /\ seq = EmptySeq
    /\ idx = 0
    /\ success_count = 0
    /\ error_count = 0
    /\ total_forecasts = 0
    /\ rows_cleared = 0
    /\ summary = <<>>
    /\ call = NoCall
    /\ hist = HistInit
    /\ ncalls = 0
    /\ writers = <<>>
    /\ rows = NoRows

\* the k-th entry the loop goes through
EntryOf(k) == IF prog = "weather_main" THEN input[k].neighborhood_data ELSE input[k]

\* name (neighborhood_name) is bound when the handler of the k-th pass
\* prints it: this pass or an earlier one has run the assignment from
\* neighborhood['name']
NameBound(k) == \E j \in 1..k : "name" \in DOMAIN EntryOf(j)

\* a pass of the loop over an entry with the three fields
ME_Point ==
    /\ idx < Len(input)
    /\ ENTRY_FIELDS \subseteq DOMAIN EntryOf(idx + 1)
    /\ \/ MF_Point
       \/ MW_Point

\* a pass over an entry that lacks a field: the subscript raises KeyError
\* in the try; the handler prints name, then counts and rolls back
ME_BadEntry ==
    /\ prog \in {"forecast_main", "weather_main"}
    /\ pc = "loop"
    /\ idx < Len(input)
    /\ ~ (ENTRY_FIELDS \subseteq DOMAIN EntryOf(idx + 1))
    /\ IF NameBound(idx + 1)
       THEN /\ error_count' = error_count + 1
            /\ tx' = Rollback(db, tx)
            /\ idx' = idx + 1
            /\ hist' = Log(hist, "KeyError")
            /\ UNCHANGED pc
       ELSE /\ pc' = "raised"
            /\ hist' = Log(hist, "UnboundLocalError")
            /\ UNCHANGED <<error_count, tx, idx>>
    /\ UNCHANGED <<schema, db, seq, prog, input, success_count, total_forecasts,
                   rows_cleared, summary, call, ncalls, concVars>>

\* after the loop: cursor.close(), conn.close(), the printed tallies
ME_Close ==
    \/ MF_Close
    \/ MW_Close

NextEntries ==
    \/ ME_Point
    \/ ME_BadEntry
    \/ ME_Close

SpecEntries == InitEntries /\ [][NextEntries]_vars

\* C29: an exception raised while an entry is processed does not leave the
\* loop of main(): the pass that raised has counted an error and rolled back,
\* and main() goes on to the next entry and to closing the connection.
C29_HandledInsideLoop ==
    prog \in {"forecast_main", "weather_main"} => pc # "raised"

\* the passes of the loop begun so far: those completed and, when the
\* handler's exception has left the loop, the pass that raised it
PassesBegun ==
    IF pc = "raised" /\ Len(hist.log) > 0 /\ hist.log[Len(hist.log)] = "UnboundLocalError"
    THEN idx + 1
    ELSE idx

\* C30: every point handed to a loop is counted once: a returned load stage
\* reports successful_loads + failed_loads equal to the length of its input,
\* and in a main() success_count + error_count is the number of catalog
\* points the loop has gone through.
C30_EveryPointCountedOnce ==
    /\ Returned("load_current_weather") =>
          /\ summary.successful_loads + summary.failed_loads = summary.total_observations
          /\ summary.total_observations = Len(input)
    /\ Returned("load_forecast_weather") =>
          /\ summary.successful_loads + summary.failed_loads = summary.total_neighborhoods
          /\ summary.total_neighborhoods = Len(input)
    /\ (prog \in {"forecast_main", "weather_main"} /\ pc \in {"loop", "done", "raised"}) =>
          success_count + error_count = PassesBegun

----------------------------------------------------------------------------
(* The scheduler's run of the two load tasks, the transformation and the   *)
(* report.  The load tasks run at the same time, each on a connection of   *)
(* its own; writers holds each task's state and position, rows the row     *)
(* versions of each namespace, input the list each load task is given.     *)

LoadTasks == {"load_current_weather", "load_forecast_weather"}

DagTasks == LoadTasks \cup {"run_dbt_models", "report_summary"}

\* the transformation waiting for the forecast load only
Upstream_ForecastOnly(t) ==
    IF t = "run_dbt_models" THEN {"load_forecast_weather"}
    ELSE IF t = "report_summary" THEN LoadTasks \cup {"run_dbt_models"}
    ELSE {}

\* [current_summary, forecast_summary] >> dbt_summary >>
\* report_summary(current_summary, forecast_summary, dbt_summary)
Upstream(t) ==
    IF t = "run_dbt_models" THEN LoadTasks
    ELSE IF t = "report_summary" THEN LoadTasks \cup {"run_dbt_models"}
    ELSE {}

\* the connection of a load task
Conn(t) == IF t = "load_current_weather" THEN 1 ELSE 2

\* the namespace a load task's location upsert names: the SQL of
\* etl/extract_weather_from_openmeteo.py names weather, that of
\* etl/extract_forecast_from_openmeteo.py the schema it is given
TaskNs(t) == IF t = "load_current_weather" THEN WEATHER_NS ELSE schema

\* the name the catalog gives the point at a coordinate
CatalogName(coord) == IF coord = COORD_A THEN "Shadyside" ELSE "Oakland"

TaskInit ==
    [state |-> "none", pc |-> "", idx |-> 0, location_id |-> 0,
     date |-> <<>>, date_id |-> 0, success_count |-> 0, error_count |-> 0]

InitDag ==
    /\ schema \in Schemas
    /\ writers = [t \in DagTasks |-> TaskInit]
    /\ input \in [LoadTasks -> SeqsUpTo(Coords, MaxPoints)]
    /\ \/ /\ rows = [ns \in Namespaces |-> NoRows]
          /\ seq = EmptySeq
       \/ /\ rows = [ns \in Namespaces |-> PriorRows]
          /\ seq = [ns \in Namespaces |-> [dim_location |-> 1, dim_date |-> 0]]
    /\ db = EmptyDb
    /\ tx = EmptyDb
    /\ prog = "scheduler"
    /\ pc = ""
    /\ idx = 0
    /\ success_count = 0
    /\ error_count = 0
    /\ total_forecasts = 0
    /\ rows_cleared = 0
    /\ summary = <<>>
    /\ call = NoCall
    /\ hist = HistInit
    /\ ncalls = 0

dagFrame == <<schema, db, tx, prog, pc, input, idx, success_count, error_count,
              total_forecasts, rows_cleared, summary, call, hist, ncalls>>

\* all_success, the trigger rule of a task that names none: the task starts
\* once every upstream task has succeeded
Dag_Start(t) ==
    /\ writers[t].state = "none"
    /\ \A u \in Upstream(t) : writers[u].state = "success"
    /\ writers' = [writers EXCEPT ![t].state = "running",
                                  ![t].pc = IF t \in LoadTasks THEN "connect" ELSE "run"]
    /\ UNCHANGED <<rows, seq>>
    /\ UNCHANGED dagFrame

\* a task with a failed upstream task is never started
Dag_UpstreamFailed(t) ==
    /\ writers[t].state = "none"
    /\ \E u \in Upstream(t) : writers[u].state \in {"failed", "upstream_failed"}
    /\ writers' = [writers EXCEPT ![t].state = "upstream_failed"]
    /\ UNCHANGED <<rows, seq>>
    /\ UNCHANGED dagFrame

\* get_db_connection(), conn.cursor() of a load task
Task_Connect(t) ==
    /\ t \in LoadTasks
    /\ writers[t].pc = "connect"
    /\ \E outcome \in ConnectOutcomes :
         writers' = [writers EXCEPT
            ![t].state = IF outcome = "ok" THEN "running" ELSE "failed",
            ![t].pc = IF outcome # "ok" THEN ""
                      ELSE IF t = "load_forecast_weather" THEN "clear" ELSE "location"]
    /\ UNCHANGED <<rows, seq>>
    /\ UNCHANGED dagFrame

\* load_forecast_weather: SELECT COUNT(*), TRUNCATE of the forecast table,
\* conn.commit()
Task_Clear(t) ==
    /\ t = "load_forecast_weather"
    /\ writers[t].pc = "clear"
    /\ writers' = [writers EXCEPT ![t].pc = "location"]
    /\ UNCHANGED <<rows, seq>>
    /\ UNCHANGED dagFrame

\* the except branch of a load task's loop that leaves the transaction open
PointFailed_NoRollback(t, rs) ==
    /\ writers' = [writers EXCEPT ![t].error_count = @ + 1, ![t].idx = @ + 1, ![t].location_id = 0,
                                  ![t].date = <<>>, ![t].date_id = 0,
                                  ![t].pc = "location"]
    /\ rows' = [rows EXCEPT ![TaskNs(t)] = rs]

\* the except branch of a load task's loop: error_count += 1, conn.rollback()
PointFailed(t, rs) ==
    /\ writers' = [writers EXCEPT ![t].error_count = @ + 1, ![t].idx = @ + 1, ![t].location_id = 0,
                                  ![t].date = <<>>, ![t].date_id = 0,
                                  ![t].pc = "location"]
    /\ rows' = [rows EXCEPT ![TaskNs(t)] = ConcRollback(rs, Conn(t))]

\* the statement a load task is about to execute waits for a lock of the
\* other connection
Blocked(t) ==
    \/ /\ writers[t].pc = "location"
       /\ writers[t].idx < Len(input[t])
       /\ LET coord == input[t][writers[t].idx + 1]
          IN ConcUpsertLocation(rows[TaskNs(t)], Conn(t), CatalogName(coord), coord,
                                0).blocked
    \/ /\ writers[t].pc = "insert"
       /\ ConcInsertDate(rows[TaskNs(t)], Conn(t), writers[t].date, 0).blocked

\* insert_or_update_location(cursor, obs['neighborhood_name'], ...) of a load
\* task's next point
Task_Location(t) ==
    /\ t \in LoadTasks
    /\ writers[t].pc = "location"
    /\ writers[t].idx < Len(input[t])
    /\ LET ns == TaskNs(t)
           new_id == seq[ns].dim_location + 1
           coord == input[t][writers[t].idx + 1]
           s == ConcUpsertLocation(rows[ns], Conn(t), CatalogName(coord), coord, new_id)
       IN   /\ ~ s.blocked
            /\ seq' = [seq EXCEPT ![ns].dim_location = new_id]
            /\ IF s.exc = ""
               THEN /\ rows' = [rows EXCEPT ![ns] = s.rows]
                    /\ writers' = [writers EXCEPT
                          ![t].location_id = s.ret,
                          ![t].pc = IF t = "load_current_weather" THEN "observe"
                                    ELSE "lookup"]
               ELSE PointFailed(t, s.rows)
    /\ UNCHANGED dagFrame

\* load_current_weather: insert_weather_observation(cursor, location_id,
\* obs['weather_data'], schema), then success_count += 1 or the except branch
Task_Observe(t) ==
    /\ t = "load_current_weather"
    /\ writers[t].pc = "observe"
    /\ LET c == insert_weather_observation_4([ret |-> 0, exc |-> ""],
                                             writers[t].location_id, <<>>, schema)
       IN IF c.exc = ""
          THEN /\ writers' = [writers EXCEPT ![t].success_count = @ + 1,
                                             ![t].idx = @ + 1, ![t].location_id = 0,
                                  ![t].date = <<>>, ![t].date_id = 0, ![t].pc = "location"]
               /\ UNCHANGED rows
          ELSE PointFailed(t, rows[TaskNs(t)])
    /\ UNCHANGED seq
    /\ UNCHANGED dagFrame

\* the day the run's forecasts begin with, the same for every point
RunDate == <<2026, 1, 19>>

\* load_forecast_weather, get_or_create_date of the point's hours: the SELECT
Task_Lookup(t) ==
    /\ t = "load_forecast_weather"
    /\ writers[t].pc = "lookup"
    /\ LET date_only == RunDate
           date_id == ConcLookupDate(rows[TaskNs(t)], Conn(t), date_only)
       IN writers' = [writers EXCEPT ![t].date = date_only,
                                     ![t].date_id = date_id,
                                     ![t].pc = IF date_id # 0 THEN "rest" ELSE "insert"]
    /\ UNCHANGED <<rows, seq>>
    /\ UNCHANGED dagFrame

\* get_or_create_date: the INSERT
Task_Insert(t) ==
    /\ t = "load_forecast_weather"
    /\ writers[t].pc = "insert"
    /\ LET ns == TaskNs(t)
           new_id == seq[ns].dim_date + 1
           s == ConcInsertDate(rows[ns], Conn(t), writers[t].date, new_id)
       IN /\ ~ s.blocked
          /\ seq' = [seq EXCEPT ![ns].dim_date = new_id]
          /\ IF s.exc = ""
             THEN /\ rows' = [rows EXCEPT ![ns] = s.rows]
                  /\ writers' = [writers EXCEPT ![t].date_id = s.ret, ![t].pc = "rest"]
             ELSE PointFailed(t, s.rows)
    /\ UNCHANGED dagFrame

\* the fact rows of the point: total_forecasts and success_count grow, or a
\* bad payload raises into the except branch
Task_Rest(t) ==
    /\ t = "load_forecast_weather"
    /\ writers[t].pc = "rest"
    /\ \E bad \in BOOLEAN :
         IF bad
         THEN PointFailed(t, rows[TaskNs(t)])
         ELSE /\ writers' = [writers EXCEPT ![t].success_count = @ + 1,
                                            ![t].idx = @ + 1, ![t].location_id = 0,
                                  ![t].date = <<>>, ![t].date_id = 0, ![t].pc = "location"]
              /\ UNCHANGED rows
    /\ UNCHANGED seq
    /\ UNCHANGED dagFrame

\* after the loop: conn.commit(), the summary, return, and the finally
\* clause closing the connection
Task_Commit(t) ==
    /\ t \in LoadTasks
    /\ writers[t].pc = "location"
    /\ writers[t].idx = Len(input[t])
    /\ rows' = [rows EXCEPT ![TaskNs(t)] = ConcCommit(@, Conn(t))]
    /\ writers' = [writers EXCEPT ![t].state = "success", ![t].pc = ""]
    /\ UNCHANGED seq
    /\ UNCHANGED dagFrame

\* run_dbt_models: 'dbt run', whose non-zero return code raises, and
\* 'dbt test', whose failure is a warning
Task_Dbt(t) ==
    /\ t = "run_dbt_models"
    /\ writers[t].pc = "run"
    /\ \E returncode \in 0..1 :
         writers' = [writers EXCEPT
            ![t].state = IF returncode # 0 THEN "failed" ELSE "success",
            ![t].pc = ""]
    /\ UNCHANGED <<rows, seq>>
    /\ UNCHANGED dagFrame

\* report_summary: the prints
Task_Report(t) ==
    /\ t = "report_summary"
    /\ writers[t].pc = "run"
    /\ writers' = [writers EXCEPT ![t].state = "success", ![t].pc = ""]
    /\ UNCHANGED <<rows, seq>>
    /\ UNCHANGED dagFrame

DagStep(t) ==
    \/ Dag_Start(t)
    \/ Dag_UpstreamFailed(t)
    \/ Task_Connect(t)
    \/ Task_Clear(t)
    \/ Task_Location(t)
    \/ Task_Observe(t)
    \/ Task_Lookup(t)
    \/ Task_Insert(t)
    \/ Task_Rest(t)
    \/ Task_Commit(t)
    \/ Task_Dbt(t)
    \/ Task_Report(t)

NextDag == \E t \in DagTasks : DagStep(t)

\* the scheduler starts a task whose upstream tasks have succeeded, and a
\* started task's process runs its next statement unless it waits for a lock
SpecDag == InitDag /\ [][NextDag]_vars /\ \A t \in DagTasks : WF_vars(DagStep(t))


----------------------------------------------------------------------------
(* Properties of the scheduler's run *)

Started(t) == writers[t].state \in {"running", "success", "failed"}

\* the task's connection has written rows it has neither committed nor
\* rolled back
HoldsWrites(t) ==
    \E ns \in Namespaces, tb \in {"dim_location", "dim_date"} :
       \E r \in rows[ns][tb] : r.by = Conn(t) \/ r.lock = Conn(t)

\* C24: run_dbt_models has started only if both load tasks have returned,
\* with nothing uncommitted on their connections, and report_summary has
\* started only if run_dbt_models has succeeded.
C24_TransformAfterLoads ==
    /\ Started("run_dbt_models") =>
          \A t \in LoadTasks : writers[t].state = "success" /\ ~ HoldsWrites(t)
    /\ Started("report_summary") => writers["run_dbt_models"].state = "success"

\* the report has run after a forecast load that committed a point and a
\* current load that rolled one back
C24_Witness ==
    /\ writers["report_summary"].state = "success"
    /\ writers["load_forecast_weather"].success_count = 1
    /\ writers["load_forecast_weather"].error_count = 1
    /\ writers["load_current_weather"].error_count = 2
    /\ \E r \in rows[schema].dim_location : r.id = 2 /\ r.by = 0


LoadsEnded == \A t \in LoadTasks : writers[t].state \in {"success", "failed"}

\* C27: the two load tasks never both wait for a lock of the other's
\* transaction, and both tasks end.
C27_LoadsNeverDeadlock ==
    /\ [](~ (Blocked("load_current_weather") /\ Blocked("load_forecast_weather")))
    /\ <>LoadsEnded

\* load_current_weather waits for a row the forecast load's transaction has
\* held since an earlier point
C27_Witness ==
    /\ Blocked("load_current_weather")
    /\ writers["load_forecast_weather"].idx = 1
    /\ writers["load_forecast_weather"].success_count = 1
    /\ writers["load_current_weather"].error_count = 1

====

